---- MODULE Spec2Model ----
(***************************************************************************)
(* Model of the IdentityLens backend: the refinement core                  *)
(* (src/backend/refinement_processor.py), the generation client and the    *)
(* identity validator.                                                     *)
(*                                                                         *)
(* RefinementProcessor.process is modelled one statement group per action, *)
(* with a program counter per invocation.  Floating-point strengths are    *)
(* held in hundredths (0.45 is 45).  An image of the pipeline is a record  *)
(* [h, w, c, px]: its numpy shape (h, w, c) and, for its samples, the list *)
(* of transformations that produced them from the caller's array (two      *)
(* images with equal px hold equal samples).  What the OpenCV filters      *)
(* measure on the samples (grain std, Laplacian variance) is chosen by the *)
(* environment inside the action that measures it.                         *)
(*                                                                         *)
(* ColorGrader.apply_lut, _detect_scene_type and _create_edge_mask are     *)
(* pure and are also modelled down to the sample / character, under        *)
(* specifications of their own (SpecGrade, SpecScene, SpecMask).           *)
(*                                                                         *)
(* FluxPuLIDClient.generate_with_retry (src/backend/flux_api_client.py) is *)
(* modelled one loop pass per action, generate_image included, the remote  *)
(* provider's behaviour being the environment's choice (SpecRetry).        *)
(* IdentityValidator.validate (src/backend/validation_module.py) is one    *)
(* action over the outcomes of DeepFace.verify and of the SSIM fallback,   *)
(* with scores as exact fractions (SpecValidate).                          *)
(*                                                                         *)
(* DataPurgeProtocol is modelled one file-system call per action, with     *)
(* another purge deleting entries in between (SpecPurge).  SpecConcurrent  *)
(* interleaves two invocations of process, which share NumPy's global      *)
(* generator.  SpecHandler is the /api/generate handler of api_server.py   *)
(* around generate_with_retry.  SpecSamples follows single samples through *)
(* the float64 arithmetic of each stage to the uint8 conversion.           *)
(***************************************************************************)
EXTENDS Integers, Sequences, FiniteSets, TLC

\* ------------------------------------------------------------------ bounds
\* Largest image side explored (0 is the zero-area array).
MaxDim == 3
\* Largest grain standard deviation explored (0-255 luminance scale).
MaxStd == 3
\* Largest number of text fragments a scene prompt is concatenated from.
MaxFrags == 3
\* Largest image side of the two-call comparison.
MaxPairDim == 2

\* ------------------------------------------------------- program constants
\* if denoise_strength > 0.50  (hundredths)
ClampTrigger == 50
\* denoise_strength = 0.45
ClampValue == 45
\* if abs(grain_diff) > 2
GrainThreshold == 2
\* if sharpness_ratio > 1.15  (hundredths)
SharpnessRatio == 115
\* RGB arrays have three channels
Channels == 3

\* ------------------------------------------------------------ small helpers
Abs(x) == IF x < 0 THEN -x ELSE x

Runs == {1, 2}

Dims == 0..MaxDim

\* Strengths a caller may pass, in hundredths: below the range, inside it,
\* its two ends, between 0.45 and 0.50, exactly 0.50, and above.
Strengths == {20, 30, 40, 45, 47, 50, 90}

\* upscale_factor as documented by __init__ ("2 or 4")
Factors == {2, 4}

NoImage == [h |-> 0, w |-> 0, c |-> 0, px |-> <<>>]

NoMetrics ==
  [denoise_strength_used |-> 0, upscale_factor |-> 0,
   scene_type |-> "", output_resolution |-> <<>>, processing_time |-> FALSE]

\* A caller's RGB array of the given shape.
InputImage(h, w, tag) == [h |-> h, w |-> w, c |-> Channels, px |-> <<tag>>]

ZeroArea(img) == img.h = 0 \/ img.w = 0

\* numpy broadcasting of two axis lengths: equal, or one of them 1.
BroadcastOk(x, y) == x = y \/ x = 1 \/ y = 1
BroadcastDim(x, y) == IF x = 1 THEN y ELSE x

\* image (H,W,3) combined elementwise with mask[:, :, np.newaxis] (Hm,Wm,1)
BroadcastShapeOk(img, mask) ==
  BroadcastOk(img.h, mask.h) /\ BroadcastOk(img.w, mask.w)

Blend(img, mask, tag) ==
  [h |-> BroadcastDim(img.h, mask.h), w |-> BroadcastDim(img.w, mask.w),
   c |-> img.c, px |-> Append(img.px, tag)]

\* A same-shape transformation of the samples.
Transformed(img, tag) == [img EXCEPT !.px = Append(@, tag)]

\* ------------------------------------------------- _detect_scene_type
\* Text is a sequence of one-character strings.
UpperCase ==
  <<"A","B","C","D","E","F","G","H","I","J","K","L","M",
    "N","O","P","Q","R","S","T","U","V","W","X","Y","Z">>
LowerCase ==
  <<"a","b","c","d","e","f","g","h","i","j","k","l","m",
    "n","o","p","q","r","s","t","u","v","w","x","y","z">>

\* str.lower() on one character
LowerChar(ch) ==
  IF \E i \in DOMAIN UpperCase : UpperCase[i] = ch
  THEN LowerCase[CHOOSE i \in DOMAIN UpperCase : UpperCase[i] = ch]
  ELSE ch

\* prompt.lower()
Lower(text) == [i \in DOMAIN text |-> LowerChar(text[i])]

\* word in text
Contains(text, word) ==
  \E i \in 1..(Len(text) - Len(word) + 1) :
    SubSeq(text, i, i + Len(word) - 1) = word

MarsWords ==
  << <<"m","a","r","s">>,
     <<"d","e","s","e","r","t">>,
     <<"s","u","n","s","e","t">>,
     <<"w","a","r","m">> >>
NightWords ==
  << <<"n","i","g","h","t">>,
     <<"e","v","e","n","i","n","g">>,
     <<"m","o","o","n","l","i","g","h","t">>,
     <<"n","e","o","n">> >>
VintageWords ==
  << <<"v","i","n","t","a","g","e">>,
     <<"r","e","t","r","o">>,
     <<"f","i","l","m">>,
     <<"1","9","2","0">> >>

\* any(word in prompt_lower for word in [...])
AnyWordIn(text, words) == \E k \in DOMAIN words : Contains(text, words[k])

\* Faulty variant: the prompt is matched without being lower-cased.
DetectSceneType_caseSensitive(prompt) ==
  IF AnyWordIn(prompt, MarsWords) THEN "mars"
  ELSE IF AnyWordIn(prompt, NightWords) THEN "night"
  ELSE IF AnyWordIn(prompt, VintageWords) THEN "vintage"
  ELSE "neutral"

\* _detect_scene_type
DetectSceneType(prompt) ==
  LET prompt_lower == Lower(prompt) IN
  IF AnyWordIn(prompt_lower, MarsWords) THEN "mars"
  ELSE IF AnyWordIn(prompt_lower, NightWords) THEN "night"
  ELSE IF AnyWordIn(prompt_lower, VintageWords) THEN "vintage"
  ELSE "neutral"

\* Prompts of the pipeline runs.
PromptMoonlight ==
  <<"p","o","r","t","r","a","i","t"," ","i","n"," ",
    "M","o","o","n","l","i","g","h","t">>
PromptParis ==
  <<"r","a","i","n","y"," ","P","a","r","i","s"," ",
    "1","9","2","0","s"," ","s","t","r","e","e","t">>
PromptPlain ==
  <<"s","t","u","d","i","o">>
Prompts == {PromptMoonlight, PromptParis, PromptPlain}

\* Pieces a scene text is concatenated from: keywords in mixed case, halves
\* of keywords (so that a keyword can straddle two pieces) and filler.
Fragments ==
  { <<"M","a","r","s">>,
    <<"D","E","S","E","R","T">>,
    <<"N","i","g","h","t">>,
    <<"m","o","o","n","l","i","g","h","t">>,
    <<"N","E","O","N">>,
    <<"V","i","n","t","a","g","e">>,
    <<"f","i","l","m">>,
    <<"1","9","2","0">>,
    <<"m","a","r">>,
    <<"s"," ">>,
    <<"n","e","o">>,
    <<"n">>,
    <<"r","a","i","n","y"," ","P","a","r","i","s"," ">>,
    <<"s"," ","s","t","r","e","e","t">> }

\* ------------------------------------------------------ ColorGrader.LUTS
\* Tint factors in hundredths; rows are highlights, midtones, shadows.
LUTS ==
  [mars    |-> << <<115,  95,  80>>, <<110, 100,  85>>, <<105, 105,  90>> >>,
   night   |-> << << 80,  85, 110>>, << 85,  90, 115>>, << 90,  95, 120>> >>,
   vintage |-> << <<105, 100,  95>>, <<100,  95,  90>>, << 95,  90,  85>> >>,
   neutral |-> << <<100, 100, 100>>, <<100, 100, 100>>, <<100, 100, 100>> >>]

\* self.LUTS.get(scene_type, self.LUTS["neutral"])
\* Faulty variant: an unknown category falls back to the first table.
LutKey_fallbackMars(scene) == IF scene \in DOMAIN LUTS THEN scene ELSE "mars"

LutKey(scene) == IF scene \in DOMAIN LUTS THEN scene ELSE "neutral"
LutFor(scene) == LUTS[LutKey(scene)]

\* Zone masks of one pixel <<r, g, b>> (uint8 samples).  luminance is
\* mean(img/255, axis=2) = (r+g+b)/765, compared with 0.66 and 0.33.
\* Faulty variant: the highlight zone starts at 0.60 and overlaps midtones.
Highlights_from60(p) == IF (p[1] + p[2] + p[3]) * 100 > 60 * 765 THEN 1 ELSE 0

Highlights(p) == IF (p[1] + p[2] + p[3]) * 100 > 66 * 765 THEN 1 ELSE 0
Midtones(p) ==
  IF (p[1] + p[2] + p[3]) * 100 >= 33 * 765
     /\ (p[1] + p[2] + p[3]) * 100 <= 66 * 765 THEN 1 ELSE 0
Shadows(p) == IF (p[1] + p[2] + p[3]) * 100 < 33 * 765 THEN 1 ELSE 0

\* One sample of apply_lut: img*lut[0]*highlights + img*lut[1]*midtones +
\* img*lut[2]*shadows, divided by (total_mask + 1e-6), times 255, clipped
\* to [0, 255] and truncated by astype(np.uint8).
\* v/255 * (sum of lut*mask)/100 / (total + 10^-6) * 255
\*   = v * (sum of lut*mask) * 10^4 / (total * 10^6 + 1).
GradeUnclipped(v, ch, lut, p) ==
  LET hi == Highlights(p)
      mid == Midtones(p)
      sh == Shadows(p)
      num == v * (lut[1][ch] * hi + lut[2][ch] * mid + lut[3][ch] * sh)
      total_mask == hi + mid + sh
  IN (num * 10000) \div (total_mask * 1000000 + 1)

\* Faulty variant: the clip before the conversion is left out.
ClipSample_none(v) == v

\* np.clip(v, 0, 255) on the whole part of a value
ClipSample(v) == IF v < 0 THEN 0 ELSE IF v > 255 THEN 255 ELSE v

GradeSample(v, ch, lut, p) == ClipSample(GradeUnclipped(v, ch, lut, p))

\* apply_lut on one pixel
ApplyLutPixel(p, scene) ==
  [ch \in 1..3 |-> GradeSample(p[ch], ch, LutFor(scene), p)]

\* ------------------------------------------------------------- state
VARIABLES
  upscale_factor,      \* self.upscale_factor
  enable_upscale,      \* self.enable_upscale
  pc,                  \* position of each invocation of process
  flux_output,         \* argument
  reference_image,     \* argument
  prompt,              \* argument
  arg_strength,        \* the denoise_strength the caller passed
  denoise_strength,    \* the local, rebound by the clamp
  edge_mask,
  harmonize_strength,  \* the strength _localized_denoise was called with
  harmonized,
  ref_profile,         \* {"std": ...} of the reference
  face_mask,
  grain_diff,          \* local of _match_grain (0 outside that stage)
  textured,
  upscaled,
  upscale_failed,      \* the "Upscaling failed" branch was taken
  scene_type,
  graded,
  metrics,
  trace,               \* the stages run so far, in order
  sc_pc, sc_prompt, sc_result,     \* _detect_scene_type on its own
  g_pc, g_pixel, g_scene, g_out,   \* ColorGrader.apply_lut on one pixel
  m_pc, m_image, m_blurred, m_mask, \* _create_edge_mask on its own
  provider,            \* FluxPuLIDClient.provider
  identity_packet,     \* argument of generate_with_retry
  max_retries,         \* argument of generate_with_retry
  rt_pc,               \* position of generate_with_retry
  attempt,             \* its loop variable
  result,              \* its local result
  calls,               \* the calls of generate_image made so far
  sleeps,              \* the arguments of time.sleep so far
  model_name,          \* IdentityValidator.model_name
  v_pc,                \* position of IdentityValidator.validate
  face_outcome,        \* what DeepFace.verify does on the two images
  ssim_outcome,        \* what structural_similarity does on them
  is_valid,            \* first component of validate's result
  validation,          \* second component, the metrics dict
  entries,             \* the entries of temp_dir: name -> what is there
  entries0,            \* the entries when the purge was called
  temp_dir,            \* what temp_dir itself is: "dir", "file" or "absent"
  p_op,                \* which DataPurgeProtocol operation is running
  identity_id,         \* argument of purge_embeddings
  max_age_hours,       \* argument of auto_purge_old_data
  p_pc,                \* its position
  p_todo,              \* the paths it has still to handle, in order
  p_removed,           \* the entries it has deleted
  p_failed,            \* the entries whose deletion raised
  rng_state,           \* NumPy's global generator: normal deviates drawn so far
  grain_noise,         \* per invocation: where in the stream its grain noise starts
  h_pc,                \* position of the /api/generate handler
  h_steps,             \* the steps the handler has carried out
  h_response,          \* what the handler answered
  q_pc,                \* position of the conversion of one sample
  q_stage,             \* the stage that converts back to uint8
  q_x,                 \* the sample of the stage's input image
  q_y,                 \* the other operand (denoised, light, noise, ...)
  q_k,                 \* the mask weight at the sample, in 255ths
  q_handed,            \* the value handed to astype(np.uint8)
  q_out,               \* the uint8 sample that comes out
  p_vanished           \* the entries another purge deleted meanwhile

cfgVars == <<upscale_factor, enable_upscale>>
argVars == <<flux_output, reference_image, prompt, arg_strength>>
sceneVars == <<sc_pc, sc_prompt, sc_result>>
gradeVars == <<g_pc, g_pixel, g_scene, g_out>>
maskVars == <<m_pc, m_image, m_blurred, m_mask>>
validVars == <<model_name, v_pc, face_outcome, ssim_outcome, is_valid, validation>>
purgeVars ==
  <<entries, entries0, temp_dir, p_op, identity_id,
    max_age_hours, p_pc, p_todo, p_removed, p_failed, p_vanished>>
rngVars == <<rng_state, grain_noise>>
handlerVars == <<h_pc, h_steps, h_response>>
sampleVars == <<q_pc, q_stage, q_x, q_y, q_k, q_handed, q_out>>
clientVars ==
  <<provider, identity_packet, max_retries, rt_pc, attempt, result, calls, sleeps>>
runVars ==
  <<pc, denoise_strength, edge_mask, harmonize_strength, harmonized,
    ref_profile, face_mask, grain_diff, textured, upscaled, upscale_failed,
    scene_type, graded, metrics, trace>>
vars == <<cfgVars, argVars, runVars, sceneVars, gradeVars, maskVars, clientVars, validVars, purgeVars, rngVars, handlerVars, sampleVars>>

\* ------------------------------------------------ what the filters measure
\* np.std of the high-pass residual: 0 for a single pixel (its blur is
\* itself), otherwise whatever the samples give.
StdChoices(img) == IF img.h * img.w = 1 THEN {0} ELSE 0..MaxStd

\* Variance of the Laplacian: 0 for a single pixel.
SharpValues == {0, 20, 23, 24}
SharpChoices(img) == IF img.h * img.w = 1 THEN {0} ELSE SharpValues

\* ------------------------------------------------------ stage functions
\* Faulty variant: clamps to the trigger value 0.50 instead of 0.45.
ClampStrength_toTrigger(s) == IF s > ClampTrigger THEN ClampTrigger ELSE s

\* Faulty variant: the assignment is executed whatever the comparison says.
ClampStrength_unconditional(s) == ClampValue

\* if denoise_strength > 0.50: denoise_strength = 0.45
ClampStrength(s) == IF s > ClampTrigger THEN ClampValue ELSE s

\* _create_edge_mask: a float mask of the image's height and width
CreateEdgeMask(image) == [h |-> image.h, w |-> image.w]

\* _localized_denoise: image * (1 - mask) + denoised * mask, astype(uint8)
LocalizedDenoise(image, mask) == Blend(image, mask, "denoise")

\* _apply_rim_light: image + rim_light * rim_mask, clipped
ApplyRimLight(image, mask) == Blend(image, mask, "rim_light")

\* _extract_face_region: np.zeros((h, w)) of the reference, blurred
ExtractFaceRegion(image) == [h |-> image.h, w |-> image.w]

\* Faulty variant: noise is added from a difference of exactly 2 on.
MatchGrain_inclusive(generated, diff, face_region) ==
  IF Abs(diff) >= GrainThreshold
  THEN IF BroadcastShapeOk(generated, face_region)
       THEN [ok |-> TRUE, img |-> Blend(generated, face_region, "grain")]
       ELSE [ok |-> FALSE, img |-> generated]
  ELSE [ok |-> TRUE, img |-> generated]

\* _match_grain after current_profile is known.  The result is
\* [ok, img]: ok is FALSE when numpy cannot broadcast noise * face_region.
MatchGrain(generated, diff, face_region) ==
  IF Abs(diff) > GrainThreshold
  THEN IF BroadcastShapeOk(generated, face_region)
       THEN [ok |-> TRUE, img |-> Blend(generated, face_region, "grain")]
       ELSE [ok |-> FALSE, img |-> generated]
  ELSE [ok |-> TRUE, img |-> generated]

\* sharpness_ratio = ref_sharpness / (gen_sharpness + 1e-6) > 1.15.  For
\* whole-number variances the 1e-6 never decides the comparison.
TooSoft(ref_sharpness, gen_sharpness) ==
  ref_sharpness * 100 > SharpnessRatio * gen_sharpness

\* _match_sharpness after the two variances are known
MatchSharpness(generated, soft, face_region) ==
  IF soft
  THEN IF BroadcastShapeOk(generated, face_region)
       THEN [ok |-> TRUE, img |-> Blend(generated, face_region, "sharpen")]
       ELSE [ok |-> FALSE, img |-> generated]
  ELSE [ok |-> TRUE, img |-> generated]

\* Faulty variant: cv2.resize is given (new_h, new_w) for (new_w, new_h).
UpscaleImage_swapped(image, factor, raised) ==
  IF raised
  THEN image
  ELSE [h |-> image.w * factor, w |-> image.h * factor, c |-> image.c,
        px |-> Append(image.px, "upscale")]

\* Faulty variant: the except branch returns an empty array.
UpscaleImage_emptyOnError(image, factor, raised) ==
  IF raised
  THEN NoImage
  ELSE [h |-> image.h * factor, w |-> image.w * factor, c |-> image.c,
        px |-> Append(image.px, "upscale")]

\* _upscale_image: raised says that a statement of the try block raised
UpscaleImage(image, factor, raised) ==
  IF raised
  THEN image
  ELSE [h |-> image.h * factor, w |-> image.w * factor, c |-> image.c,
        px |-> Append(image.px, "upscale")]

\* color_grader.apply_lut on a whole image: same shape, samples graded
ApplyLut(image, scene) == Transformed(image, LutKey(scene))

\* Faulty variant: shape[0] (the height) is written first.
Resolution_heightFirst(image) == <<image.h, "x", image.w>>

\* f"{graded.shape[1]}x{graded.shape[0]}"
Resolution(image) == <<image.w, "x", image.h>>

\* the metrics dict of process
MakeMetrics(strength, enabled, factor, scene, image) ==
  [denoise_strength_used |-> strength,
   upscale_factor |-> IF enabled THEN factor ELSE 1,
   scene_type |-> scene,
   output_resolution |-> Resolution(image),
   processing_time |-> TRUE]

\* ------------------------------------- RefinementProcessor.process steps
\* process, lines 57-60: validate denoise strength
Clamp(r) ==
  /\ pc[r] = "start"
  /\ denoise_strength' = [denoise_strength EXCEPT ![r] = ClampStrength(@)]
  /\ pc' = [pc EXCEPT ![r] = "edge_mask"]
  /\ UNCHANGED <<cfgVars, argVars, sceneVars, gradeVars, maskVars, clientVars, validVars, purgeVars, sampleVars, rngVars, handlerVars, edge_mask,
                 harmonize_strength, harmonized, ref_profile, face_mask,
                 grain_diff, textured, upscaled, upscale_failed, scene_type,
                 graded, metrics, trace>>

\* line 66: cv2.cvtColor raises on an empty array
EdgeMaskStep(r) ==
  /\ pc[r] = "edge_mask"
  /\ trace' = [trace EXCEPT ![r] = Append(@, "edge_mask")]
  /\ IF ZeroArea(flux_output[r])
     THEN /\ pc' = [pc EXCEPT ![r] = "raised"]
          /\ UNCHANGED edge_mask
     ELSE /\ edge_mask' = [edge_mask EXCEPT ![r] = CreateEdgeMask(flux_output[r])]
          /\ pc' = [pc EXCEPT ![r] = "denoise"]
  /\ UNCHANGED <<cfgVars, argVars, sceneVars, gradeVars, maskVars, clientVars, validVars, purgeVars, sampleVars, rngVars, handlerVars, denoise_strength,
                 harmonize_strength, harmonized, ref_profile, face_mask,
                 grain_diff, textured, upscaled, upscale_failed, scene_type,
                 graded, metrics>>

\* line 67
DenoiseStep(r) ==
  /\ pc[r] = "denoise"
  /\ trace' = [trace EXCEPT ![r] = Append(@, "harmonize")]
  /\ harmonize_strength' = [harmonize_strength EXCEPT ![r] = denoise_strength[r]]
  /\ harmonized' =
       [harmonized EXCEPT ![r] = LocalizedDenoise(flux_output[r], edge_mask[r])]
  /\ pc' = [pc EXCEPT ![r] = "rim_light"]
  /\ UNCHANGED <<cfgVars, argVars, sceneVars, gradeVars, maskVars, clientVars, validVars, purgeVars, sampleVars, rngVars, handlerVars, denoise_strength,
                 edge_mask, ref_profile, face_mask, grain_diff, textured,
                 upscaled, upscale_failed, scene_type, graded, metrics>>

\* Faulty variant: the rim light is applied to flux_output, so the
\* harmonization result is dropped.
RimLightStep_onInput(r) ==
  /\ pc[r] = "rim_light"
  /\ trace' = [trace EXCEPT ![r] = Append(@, "rim_light")]
  /\ harmonized' =
       [harmonized EXCEPT ![r] = ApplyRimLight(flux_output[r], edge_mask[r])]
  /\ pc' = [pc EXCEPT ![r] = "analyze_grain"]
  /\ UNCHANGED <<cfgVars, argVars, sceneVars, gradeVars, maskVars, clientVars, validVars, purgeVars, sampleVars, rngVars, handlerVars, denoise_strength,
                 edge_mask, harmonize_strength, ref_profile, face_mask,
                 grain_diff, textured, upscaled, upscale_failed, scene_type,
                 graded, metrics>>

\* line 68
RimLightStep(r) ==
  /\ pc[r] = "rim_light"
  /\ trace' = [trace EXCEPT ![r] = Append(@, "rim_light")]
  /\ harmonized' = [harmonized EXCEPT ![r] = ApplyRimLight(@, edge_mask[r])]
  /\ pc' = [pc EXCEPT ![r] = "analyze_grain"]
  /\ UNCHANGED <<cfgVars, argVars, sceneVars, gradeVars, maskVars, clientVars, validVars, purgeVars, sampleVars, rngVars, handlerVars, denoise_strength,
                 edge_mask, harmonize_strength, ref_profile, face_mask,
                 grain_diff, textured, upscaled, upscale_failed, scene_type,
                 graded, metrics>>

\* line 72: _analyze_grain(reference_image); cvtColor raises on an empty array
AnalyzeGrainStep(r) ==
  /\ pc[r] = "analyze_grain"
  /\ trace' = [trace EXCEPT ![r] = Append(@, "analyze_grain")]
  /\ IF ZeroArea(reference_image[r])
     THEN /\ pc' = [pc EXCEPT ![r] = "raised"]
          /\ UNCHANGED ref_profile
     ELSE /\ \E std \in StdChoices(reference_image[r]) :
               ref_profile' = [ref_profile EXCEPT ![r] = [std |-> std]]
          /\ pc' = [pc EXCEPT ![r] = "face_region"]
  /\ UNCHANGED <<cfgVars, argVars, sceneVars, gradeVars, maskVars, clientVars, validVars, purgeVars, sampleVars, rngVars, handlerVars, denoise_strength,
                 edge_mask, harmonize_strength, harmonized, face_mask,
                 grain_diff, textured, upscaled, upscale_failed, scene_type,
                 graded, metrics>>

\* line 73
FaceRegionStep(r) ==
  /\ pc[r] = "face_region"
  /\ trace' = [trace EXCEPT ![r] = Append(@, "face_region")]
  /\ face_mask' = [face_mask EXCEPT ![r] = ExtractFaceRegion(reference_image[r])]
  /\ pc' = [pc EXCEPT ![r] = "match_grain"]
  /\ UNCHANGED <<cfgVars, argVars, sceneVars, gradeVars, maskVars, clientVars, validVars, purgeVars, sampleVars, rngVars, handlerVars, denoise_strength,
                 edge_mask, harmonize_strength, harmonized, ref_profile,
                 grain_diff, textured, upscaled, upscale_failed, scene_type,
                 graded, metrics>>

\* line 230: np.random.normal(0, abs(grain_diff), generated.shape) takes one
\* deviate per sample from NumPy's global generator, which every invocation
\* in the process shares; nothing is drawn when the difference is within 2.
DeviatesDrawn(generated, diff) ==
  IF Abs(diff) > GrainThreshold
  THEN generated.h * generated.w * generated.c ELSE 0

\* line 74: current_std is np.std of the harmonized image's grain
MatchGrainStep(r) ==
  /\ pc[r] = "match_grain"
  /\ \E current_std \in StdChoices(harmonized[r]) :
       LET diff == ref_profile[r].std - current_std
           res == MatchGrain(harmonized[r], diff, face_mask[r])
       IN /\ grain_diff' = [grain_diff EXCEPT ![r] = diff]
          /\ textured' = [textured EXCEPT ![r] = IF res.ok THEN res.img ELSE @]
          /\ pc' = [pc EXCEPT ![r] = IF res.ok THEN "match_sharpness" ELSE "raised"]
          /\ trace' = [trace EXCEPT ![r] = Append(@, "match_grain")]
          /\ rng_state' = rng_state + DeviatesDrawn(harmonized[r], diff)
          /\ grain_noise' =
               [grain_noise EXCEPT
                  ![r] = IF DeviatesDrawn(harmonized[r], diff) > 0
                         THEN rng_state ELSE @]
       /\ UNCHANGED <<cfgVars, argVars, sceneVars, gradeVars, maskVars, clientVars, validVars, purgeVars, sampleVars, handlerVars,
                      denoise_strength, edge_mask, harmonize_strength,
                      harmonized, ref_profile, face_mask, upscaled,
                      upscale_failed, scene_type, graded, metrics>>

\* line 75: the two Laplacian variances are measured on the samples.
\* grain_diff, a local of _match_grain, is gone once this stage has started.
MatchSharpnessStep(r) ==
  /\ pc[r] = "match_sharpness"
  /\ \E ref_sharpness \in SharpChoices(reference_image[r]),
          gen_sharpness \in SharpChoices(textured[r]) :
       LET res == MatchSharpness(textured[r], TooSoft(ref_sharpness, gen_sharpness),
                                 face_mask[r])
       IN /\ textured' = [textured EXCEPT ![r] = IF res.ok THEN res.img ELSE @]
          /\ pc' = [pc EXCEPT ![r] = IF res.ok THEN "upscale" ELSE "raised"]
          /\ trace' = [trace EXCEPT ![r] = Append(@, "match_sharpness")]
       /\ grain_diff' = [grain_diff EXCEPT ![r] = 0]
       /\ UNCHANGED <<cfgVars, argVars, sceneVars, gradeVars, maskVars, clientVars, validVars, purgeVars, sampleVars, rngVars, handlerVars,
                      denoise_strength, edge_mask, harmonize_strength,
                      harmonized, ref_profile, face_mask,
                      upscaled, upscale_failed, scene_type, graded, metrics>>

\* lines 78-83: raised is whether the try block of _upscale_image raised
UpscaleStep(r) ==
  /\ pc[r] = "upscale"
  /\ \E raised \in BOOLEAN :
       /\ IF enable_upscale
          THEN /\ upscaled' =
                    [upscaled EXCEPT ![r] = UpscaleImage(textured[r], upscale_factor, raised)]
               /\ upscale_failed' = [upscale_failed EXCEPT ![r] = raised]
               /\ trace' = [trace EXCEPT ![r] = Append(@, "upscale")]
          ELSE /\ ~raised
               /\ upscaled' = [upscaled EXCEPT ![r] = textured[r]]
               /\ UNCHANGED upscale_failed
               /\ trace' = [trace EXCEPT ![r] = Append(@, "upscale_skipped")]
       /\ pc' = [pc EXCEPT ![r] = "detect_scene"]
       /\ UNCHANGED <<cfgVars, argVars, sceneVars, gradeVars, maskVars, clientVars, validVars, purgeVars, sampleVars, rngVars, handlerVars,
                      denoise_strength, edge_mask, harmonize_strength,
                      harmonized, ref_profile, face_mask, grain_diff,
                      textured, scene_type, graded, metrics>>

\* line 87
DetectSceneStep(r) ==
  /\ pc[r] = "detect_scene"
  /\ trace' = [trace EXCEPT ![r] = Append(@, "detect_scene")]
  /\ scene_type' = [scene_type EXCEPT ![r] = DetectSceneType(prompt[r])]
  /\ pc' = [pc EXCEPT ![r] = "color_grade"]
  /\ UNCHANGED <<cfgVars, argVars, sceneVars, gradeVars, maskVars, clientVars, validVars, purgeVars, sampleVars, rngVars, handlerVars, denoise_strength,
                 edge_mask, harmonize_strength, harmonized, ref_profile,
                 face_mask, grain_diff, textured, upscaled, upscale_failed,
                 graded, metrics>>

\* line 88
ColorGradeStep(r) ==
  /\ pc[r] = "color_grade"
  /\ trace' = [trace EXCEPT ![r] = Append(@, "color_grade")]
  /\ graded' = [graded EXCEPT ![r] = ApplyLut(upscaled[r], scene_type[r])]
  /\ pc' = [pc EXCEPT ![r] = "metrics"]
  /\ UNCHANGED <<cfgVars, argVars, sceneVars, gradeVars, maskVars, clientVars, validVars, purgeVars, sampleVars, rngVars, handlerVars, denoise_strength,
                 edge_mask, harmonize_strength, harmonized, ref_profile,
                 face_mask, grain_diff, textured, upscaled, upscale_failed,
                 scene_type, metrics>>

\* lines 90-102: assemble the metrics and return (graded, metrics)
MetricsStep(r) ==
  /\ pc[r] = "metrics"
  /\ trace' = [trace EXCEPT ![r] = Append(@, "metrics")]
  /\ metrics' =
       [metrics EXCEPT ![r] = MakeMetrics(denoise_strength[r], enable_upscale,
                                          upscale_factor, scene_type[r], graded[r])]
  /\ pc' = [pc EXCEPT ![r] = "done"]
  /\ UNCHANGED <<cfgVars, argVars, sceneVars, gradeVars, maskVars, clientVars, validVars, purgeVars, sampleVars, rngVars, handlerVars, denoise_strength,
                 edge_mask, harmonize_strength, harmonized, ref_profile,
                 face_mask, grain_diff, textured, upscaled, upscale_failed,
                 scene_type, graded>>


Step(r) ==
  \/ Clamp(r)
  \/ EdgeMaskStep(r)
  \/ DenoiseStep(r)
  \/ RimLightStep(r)
  \/ AnalyzeGrainStep(r)
  \/ FaceRegionStep(r)
  \/ MatchGrainStep(r)
  \/ MatchSharpnessStep(r)
  \/ UpscaleStep(r)
  \/ DetectSceneStep(r)
  \/ ColorGradeStep(r)
  \/ MetricsStep(r)

Next == \E r \in Runs : Step(r)

\* ------------------------------------------------------- initial states
\* Locals of an invocation before its first statement.
RunInit ==
  /\ edge_mask = [r \in Runs |-> [h |-> 0, w |-> 0]]
  /\ harmonize_strength = [r \in Runs |-> 0]
  /\ harmonized = [r \in Runs |-> NoImage]
  /\ ref_profile = [r \in Runs |-> [std |-> 0]]
  /\ face_mask = [r \in Runs |-> [h |-> 0, w |-> 0]]
  /\ grain_diff = [r \in Runs |-> 0]
  /\ textured = [r \in Runs |-> NoImage]
  /\ upscaled = [r \in Runs |-> NoImage]
  /\ upscale_failed = [r \in Runs |-> FALSE]
  /\ scene_type = [r \in Runs |-> ""]
  /\ graded = [r \in Runs |-> NoImage]
  /\ metrics = [r \in Runs |-> NoMetrics]
  /\ trace = [r \in Runs |-> <<>>]

SceneIdle == sc_pc = "idle" /\ sc_prompt = <<>> /\ sc_result = ""

GradeIdle ==
  g_pc = "idle" /\ g_pixel = <<0, 0, 0>> /\ g_scene = "" /\ g_out = <<0, 0, 0>>

NoMask == [h |-> 0, w |-> 0, v |-> [num |-> 0, den |-> 1]]

MaskIdle == m_pc = "idle" /\ m_image = NoImage /\ m_blurred = 0 /\ m_mask = NoMask

\* InferenceResult before any is built
NoResult == [success |-> FALSE, error_code |-> 0, image_url |-> ""]

NoPacket == [wellFormed |-> TRUE, cleanFace |-> FALSE, boundingBox |-> FALSE,
             passed |-> FALSE]

ClientIdle ==
  /\ provider = "fal"
  /\ identity_packet = NoPacket
  /\ max_retries = 0
  /\ rt_pc = "idle"
  /\ attempt = 0
  /\ result = NoResult
  /\ calls = <<>>
  /\ sleeps = <<>>

\* no metrics dict yet
NoValidation == [keys |-> {}, similarity_score |-> 0, is_valid |-> FALSE]

ValidatorIdle ==
  /\ model_name = "ArcFace"
  /\ v_pc = "idle"
  /\ face_outcome = [exc |-> "Exception", distance |-> 0]
  /\ ssim_outcome = [exc |-> "Exception", score |-> 0]
  /\ is_valid = FALSE
  /\ validation = NoValidation

\* nothing at a path
Absent == [kind |-> "absent", age |-> 0, deletable |-> FALSE]

\* the names the directory may hold: the three artifacts of session s1 and
\* one of session s2
Files ==
  {[id |-> "s1", suffix |-> "_embedding.pkl"],
   [id |-> "s1", suffix |-> "_temp.jpg"],
   [id |-> "s1", suffix |-> "_cache"],
   [id |-> "s2", suffix |-> "_temp.jpg"]}

\* no grain noise drawn yet by anyone
NoNoise == -1
RngIdle == rng_state = 0 /\ grain_noise = [r \in Runs |-> NoNoise]

NoResponse == [status |-> 0, success |-> FALSE, code |-> 0]
HandlerIdle == h_pc = "idle" /\ h_steps = <<>> /\ h_response = NoResponse

\* a float64 value num/den; err is the sign of the rounding error the
\* float64 evaluation adds to it (less than one unit in the last place)
Value(num, den, err) == [num |-> num, den |-> den, err |-> err]

SampleIdle ==
  /\ q_pc = "idle"
  /\ q_stage = ""
  /\ q_x = 0
  /\ q_y = 0
  /\ q_k = 0
  /\ q_handed = Value(0, 1, 0)
  /\ q_out = 0

PurgeIdle ==
  /\ entries = [f \in Files |-> Absent]
  /\ entries0 = entries
  /\ temp_dir = "absent"
  /\ p_op = "none"
  /\ identity_id = ""
  /\ max_age_hours = 0
  /\ p_pc = "idle"
  /\ p_todo = <<>>
  /\ p_removed = {}
  /\ p_failed = {}
  /\ p_vanished = {}

\* RefinementProcessor(upscale_factor, enable_upscale)
ProcessorInit == upscale_factor \in Factors /\ enable_upscale \in BOOLEAN

\* One call of process: invocation 1 runs, invocation 2 is never started.
Init ==
  /\ SampleIdle
  /\ HandlerIdle
  /\ RngIdle
  /\ PurgeIdle
  /\ ValidatorIdle
  /\ ClientIdle
  /\ MaskIdle
  /\ ProcessorInit
  /\ pc = [r \in Runs |-> IF r = 1 THEN "start" ELSE "idle"]
  /\ \E h \in Dims, w \in Dims :
       flux_output =
         [r \in Runs |-> IF r = 1 THEN InputImage(h, w, "flux") ELSE NoImage]
  /\ \E h \in Dims, w \in Dims :
       reference_image =
         [r \in Runs |-> IF r = 1 THEN InputImage(h, w, "reference") ELSE NoImage]
  /\ \E p \in Prompts : prompt = [r \in Runs |-> IF r = 1 THEN p ELSE <<>>]
  /\ \E s \in Strengths : arg_strength = [r \in Runs |-> IF r = 1 THEN s ELSE 0]
  /\ denoise_strength = arg_strength
  /\ RunInit
  /\ SceneIdle
  /\ GradeIdle

Spec == Init /\ [][Next]_vars

\* Two calls of process, one after the other, on the same processor with the
\* same images and prompt: the first with denoise_strength 0.9, the second
\* with 0.45.
InitPair ==
  /\ SampleIdle
  /\ HandlerIdle
  /\ RngIdle
  /\ PurgeIdle
  /\ ValidatorIdle
  /\ ClientIdle
  /\ MaskIdle
  /\ ProcessorInit
  /\ pc = [r \in Runs |-> IF r = 1 THEN "start" ELSE "waiting"]
  /\ \E h \in 1..MaxPairDim, w \in 1..MaxPairDim :
       flux_output = [r \in Runs |-> InputImage(h, w, "flux")]
  /\ \E h \in 1..MaxPairDim, w \in 1..MaxPairDim :
       reference_image = [r \in Runs |-> InputImage(h, w, "reference")]
  /\ \E p \in Prompts : prompt = [r \in Runs |-> p]
  /\ arg_strength = [r \in Runs |-> IF r = 1 THEN 90 ELSE 45]
  /\ denoise_strength = arg_strength
  /\ RunInit
  /\ SceneIdle
  /\ GradeIdle

\* The caller makes the second call when the first has returned or raised.
SecondCall ==
  /\ pc[2] = "waiting"
  /\ pc[1] \in {"done", "raised"}
  /\ pc' = [pc EXCEPT ![2] = "start"]
  /\ UNCHANGED <<cfgVars, argVars, sceneVars, gradeVars, maskVars, clientVars, validVars, purgeVars, sampleVars, rngVars, handlerVars, denoise_strength,
                 edge_mask, harmonize_strength, harmonized, ref_profile,
                 face_mask, grain_diff, textured, upscaled, upscale_failed,
                 scene_type, graded, metrics, trace>>

NextPair == Next \/ SecondCall

SpecPair == InitPair /\ [][NextPair]_vars

\* ------------------------------------ _detect_scene_type as a function
RECURSIVE Concat(_)
Concat(fs) == IF fs = <<>> THEN <<>> ELSE Head(fs) \o Concat(Tail(fs))

FragSeqs == UNION {[1..n -> Fragments] : n \in 0..MaxFrags}

PipelineIdle ==
  /\ upscale_factor = 4
  /\ enable_upscale = TRUE
  /\ pc = [r \in Runs |-> "idle"]
  /\ flux_output = [r \in Runs |-> NoImage]
  /\ reference_image = [r \in Runs |-> NoImage]
  /\ prompt = [r \in Runs |-> <<>>]
  /\ arg_strength = [r \in Runs |-> 0]
  /\ denoise_strength = arg_strength
  /\ RunInit

SceneInit ==
  /\ SampleIdle
  /\ HandlerIdle
  /\ RngIdle
  /\ PurgeIdle
  /\ ValidatorIdle
  /\ ClientIdle
  /\ MaskIdle
  /\ PipelineIdle
  /\ GradeIdle
  /\ sc_pc = "ready"
  /\ sc_prompt \in {Concat(fs) : fs \in FragSeqs}
  /\ sc_result = ""

SceneDetect ==
  /\ sc_pc = "ready"
  /\ sc_result' = DetectSceneType(sc_prompt)
  /\ sc_pc' = "done"
  /\ UNCHANGED <<cfgVars, argVars, runVars, gradeVars, maskVars, clientVars, validVars, purgeVars, sampleVars, rngVars, handlerVars, sc_prompt>>

SpecScene == SceneInit /\ [][SceneDetect]_vars

\* ------------------------------------------ apply_lut as a function
\* uint8 samples
MaxSample == 255
SideSamples == {0, 1, 127, 254, MaxSample}
Pixels == {<<a, b, c>> : a \in 0..MaxSample, b \in SideSamples, c \in SideSamples}

\* scene_type arguments: the four keys of LUTS and one that is none of them
SceneArgs == {"mars", "night", "vintage", "neutral", "underwater"}

GradeInit ==
  /\ SampleIdle
  /\ HandlerIdle
  /\ RngIdle
  /\ PurgeIdle
  /\ ValidatorIdle
  /\ ClientIdle
  /\ MaskIdle
  /\ PipelineIdle
  /\ SceneIdle
  /\ g_pc = "ready"
  /\ g_pixel \in Pixels
  /\ g_scene \in SceneArgs
  /\ g_out = <<0, 0, 0>>

GradeApply ==
  /\ g_pc = "ready"
  /\ g_out' = ApplyLutPixel(g_pixel, g_scene)
  /\ g_pc' = "done"
  /\ UNCHANGED <<cfgVars, argVars, runVars, sceneVars, maskVars, clientVars, validVars, purgeVars, sampleVars, rngVars, handlerVars, g_pixel, g_scene>>

SpecGrade == GradeInit /\ [][GradeApply]_vars

\* ------------------------------------ _create_edge_mask as a function
\* Faulty variant: astype(float) without the division by 255.
EdgeMaskValue_unscaled(blurred) == [num |-> blurred, den |-> 1]

\* edge_mask.astype(float) / 255.0 on one sample of the blurred uint8 edge
\* image (Canny, dilated twice, GaussianBlur): the fraction blurred/255.
EdgeMaskValue(blurred) == [num |-> blurred, den |-> MaxSample]

\* One image and, for one of its pixels, the sample GaussianBlur left there.
MaskInit ==
  /\ SampleIdle
  /\ HandlerIdle
  /\ RngIdle
  /\ PurgeIdle
  /\ ValidatorIdle
  /\ ClientIdle
  /\ PipelineIdle
  /\ SceneIdle
  /\ GradeIdle
  /\ m_pc = "ready"
  /\ \E h \in Dims, w \in Dims : m_image = InputImage(h, w, "image")
  /\ m_blurred \in 0..MaxSample
  /\ m_mask = NoMask

\* cv2.cvtColor raises on an empty array, as in process.
EdgeMaskApply ==
  /\ m_pc = "ready"
  /\ IF ZeroArea(m_image)
     THEN /\ m_pc' = "raised"
          /\ UNCHANGED m_mask
     ELSE /\ m_mask' = [h |-> CreateEdgeMask(m_image).h,
                        w |-> CreateEdgeMask(m_image).w,
                        v |-> EdgeMaskValue(m_blurred)]
          /\ m_pc' = "done"
  /\ UNCHANGED <<cfgVars, argVars, runVars, sceneVars, gradeVars, clientVars, validVars, purgeVars, sampleVars, rngVars, handlerVars,
                 m_image, m_blurred>>

SpecMask == MaskInit /\ [][EdgeMaskApply]_vars

\* --------------------------------------------------- FluxPuLIDClient
\* the most attempts a caller asks for (api_server and test_inference ask
\* for 3)
MaxRetries == 3

\* class ErrorCodes
NO_FACE_DETECTED == 1001
LOW_QUALITY_IMAGE == 1002
INFERENCE_TIMEOUT == 2001
API_RATE_LIMIT == 2002
NSFW_CONTENT == 3001
API_ERROR == 4001
UNKNOWN_ERROR == 9999

ErrorCodes ==
  {NO_FACE_DETECTED, LOW_QUALITY_IMAGE, INFERENCE_TIMEOUT, API_RATE_LIMIT,
   NSFW_CONTENT, API_ERROR, UNKNOWN_ERROR}

\* Faulty variant: the missing-face failure is marked retryable.
ERROR_MESSAGES_retryNoFace ==
  (NO_FACE_DETECTED :> [retry |-> TRUE]) @@
  (LOW_QUALITY_IMAGE :> [retry |-> TRUE]) @@
  (INFERENCE_TIMEOUT :> [retry |-> TRUE]) @@
  (API_RATE_LIMIT :> [retry |-> TRUE]) @@
  (NSFW_CONTENT :> [retry |-> FALSE])

\* ERROR_MESSAGES, the "retry" entry of each code
ERROR_MESSAGES ==
  (NO_FACE_DETECTED :> [retry |-> FALSE]) @@
  (LOW_QUALITY_IMAGE :> [retry |-> TRUE]) @@
  (INFERENCE_TIMEOUT :> [retry |-> TRUE]) @@
  (API_RATE_LIMIT :> [retry |-> TRUE]) @@
  (NSFW_CONTENT :> [retry |-> FALSE])

\* generate_with_retry, lines 461-464: the failed result is returned at once
ReturnedAtOnce(error_code) ==
  IF error_code \in DOMAIN ERROR_MESSAGES
  THEN ~ERROR_MESSAGES[error_code].retry
  ELSE FALSE

\* api_server._is_retryable
IsRetryable(error_code) == error_code \notin {NO_FACE_DETECTED, NSFW_CONTENT}

\* self.provider: the two the client supports and one it does not
Providers == {"fal", "replicate", "comfyui"}

\* Identity packets: whether image.cleanFace, facialData.boundingBox and
\* qualityMetrics.passed are truthy; wellFormed is FALSE when a section is
\* not a dict, so that .get raises AttributeError.
Packets ==
  [wellFormed : {TRUE}, cleanFace : BOOLEAN, boundingBox : BOOLEAN,
   passed : BOOLEAN]
  \cup {[wellFormed |-> FALSE, cleanFace |-> TRUE, boundingBox |-> TRUE,
         passed |-> TRUE]}

\* What the remote side does during one call of generate_image.
\*   ok            200 and the JSON the client reads
\*   timeout       requests.post raises requests.Timeout
\*   http_error    raise_for_status or the connection raises
\*   bad_json      the JSON lacks a key the client reads
\*   failed        Replicate reports status "failed"
\*   poll_timeout  Replicate is not finished within max_wait
BehavioursOf(p) ==
  IF p = "replicate"
  THEN {"ok", "timeout", "http_error", "bad_json", "failed", "poll_timeout"}
  ELSE {"ok", "timeout", "http_error", "bad_json"}

\* _apply_harmonization: the img2img answer replaces image_url, or any
\* failure leaves it as it was
HarmonizeOutcomes == {"replaced", "kept"}

\* The end of a block of code: a returned InferenceResult or an exception,
\* and the network requests made on the way.
Returned(res, n) == [exc |-> "none", result |-> res, requests |-> n]
Raised(e, n) == [exc |-> e, result |-> NoResult, requests |-> n]

Success(url) == [success |-> TRUE, error_code |-> 0, image_url |-> url]
Failure(code) == [success |-> FALSE, error_code |-> code, image_url |-> ""]

\* _validate_identity_packet
ValidateIdentityPacket(packet) ==
  IF ~packet.wellFormed
  THEN Raised("AttributeError", 0)
  ELSE Returned(packet.cleanFace /\ packet.boundingBox /\ packet.passed, 0)

\* _generate_fal
GenerateFal(behaviour) ==
  CASE behaviour = "ok" -> Returned(Success("generated"), 1)
    [] behaviour = "timeout" -> Raised("Timeout", 1)
    [] behaviour = "http_error" -> Raised("HTTPError", 1)
    [] OTHER -> Raised("KeyError", 1)

\* _generate_replicate and _poll_replicate_prediction
GenerateReplicate(behaviour) ==
  CASE behaviour = "ok" -> Returned(Success("generated"), 2)
    [] behaviour = "timeout" -> Raised("Timeout", 1)
    [] behaviour = "http_error" -> Raised("HTTPError", 1)
    [] behaviour = "failed" -> Returned(Failure(API_ERROR), 2)
    [] behaviour = "poll_timeout" -> Returned(Failure(INFERENCE_TIMEOUT), 2)
    [] OTHER -> Raised("KeyError", 1)

\* _apply_harmonization: one more request; its exceptions are swallowed
ApplyHarmonization(res, harmonization) ==
  IF harmonization = "replaced"
  THEN [res EXCEPT !.image_url = "harmonized"]
  ELSE res

\* generate_image, lines 143-168: the body of the try statement
GenerateImageBody(packet, p, behaviour, harmonization) ==
  LET valid == ValidateIdentityPacket(packet)
      generated == IF p = "fal" THEN GenerateFal(behaviour)
                   ELSE IF p = "replicate" THEN GenerateReplicate(behaviour)
                   ELSE Raised("ValueError", 0)
  IN IF valid.exc # "none" THEN valid
     ELSE IF ~valid.result THEN Returned(Failure(NO_FACE_DETECTED), 0)
     ELSE IF generated.exc # "none" THEN generated
     ELSE IF generated.result.success /\ generated.result.image_url # ""
          THEN Returned(ApplyHarmonization(generated.result, harmonization),
                        generated.requests + 1)
          ELSE generated

\* Faulty variant: only requests.Timeout is caught.
GenerateImage_timeoutOnly(packet, p, behaviour, harmonization) ==
  LET body == GenerateImageBody(packet, p, behaviour, harmonization)
  IN IF body.exc = "Timeout"
     THEN Returned(Failure(INFERENCE_TIMEOUT), body.requests)
     ELSE body

\* generate_image: except requests.Timeout, then except Exception
GenerateImage(packet, p, behaviour, harmonization) ==
  LET body == GenerateImageBody(packet, p, behaviour, harmonization)
  IN IF body.exc = "none" THEN body
     ELSE IF body.exc = "Timeout"
          THEN Returned(Failure(INFERENCE_TIMEOUT), body.requests)
          ELSE Returned(Failure(API_ERROR), body.requests)

\* Faulty variant: the loop makes one pass too many.
LoopContinues_inclusive(a, m) == a + 1 <= m

\* for attempt in range(max_retries): there is a value after a
LoopContinues(a, m) == a + 1 < m

\* Faulty variant: the client also waits after the last allowed attempt.
SleepsBeforeRetry_afterLast(a, m) == a < m

\* line 466: if attempt < max_retries - 1
SleepsBeforeRetry(a, m) == a < m - 1

\* A call of generate_with_retry on a client of any provider.
RetryInit ==
  /\ SampleIdle
  /\ HandlerIdle
  /\ RngIdle
  /\ PurgeIdle
  /\ ValidatorIdle
  /\ PipelineIdle
  /\ SceneIdle
  /\ GradeIdle
  /\ MaskIdle
  /\ provider \in Providers
  /\ identity_packet \in Packets
  /\ max_retries \in 0..MaxRetries
  /\ rt_pc = "loop"
  /\ attempt = 0
  /\ result = NoResult
  /\ calls = <<>>
  /\ sleeps = <<>>

\* One pass of the for loop of generate_with_retry, up to the time.sleep
\* that ends it or to the return.  With max_retries = 0 the loop body never
\* runs and "return result" reads a local that was never bound.
RetryAttempt ==
  /\ rt_pc = "loop"
  /\ IF max_retries = 0
     THEN /\ rt_pc' = "raised"
          /\ UNCHANGED <<attempt, result, calls, sleeps>>
     ELSE \E behaviour \in BehavioursOf(provider),
             harmonization \in HarmonizeOutcomes :
            LET out == GenerateImage(identity_packet, provider, behaviour,
                                     harmonization)
            IN /\ calls' = Append(calls, [behaviour |-> behaviour, out |-> out])
               /\ IF out.exc # "none"
                  THEN /\ rt_pc' = "raised"
                       /\ UNCHANGED <<attempt, result, sleeps>>
                  ELSE /\ result' = out.result
                       /\ IF out.result.success
                             \/ ReturnedAtOnce(out.result.error_code)
                          THEN /\ rt_pc' = "returned"
                               /\ UNCHANGED <<attempt, sleeps>>
                          ELSE /\ sleeps' =
                                    IF SleepsBeforeRetry(attempt, max_retries)
                                    THEN Append(sleeps, 2 ^ attempt)
                                    ELSE sleeps
                               /\ IF LoopContinues(attempt, max_retries)
                                  THEN /\ attempt' = attempt + 1
                                       /\ rt_pc' = "loop"
                                  ELSE /\ rt_pc' = "returned"
                                       /\ UNCHANGED attempt
  /\ UNCHANGED <<cfgVars, argVars, runVars, sceneVars, gradeVars, maskVars,
                 validVars, purgeVars, sampleVars, rngVars, handlerVars, provider, identity_packet, max_retries>>

SpecRetry == RetryInit /\ [][RetryAttempt]_vars

\* ------------------------------------------------- IdentityValidator
\* Scores are exact fractions of ScoreUnit, the common denominator of the
\* divisors 1.34 and 1.5 for distances given in hundredths: 1.0 is ScoreUnit.
ScoreUnit == 134 * 150

\* SIMILARITY_THRESHOLD = 0.80
SIMILARITY_THRESHOLD == (80 * ScoreUnit) \div 100

\* the largest distance DeepFace.verify reports (cosine distance), in
\* hundredths
MaxDistance == 200

\* result["distance"], in hundredths
Distances == 0..MaxDistance

\* structural_similarity(gray1, gray2), in hundredths: a mean SSIM lies
\* between -1 and 1 and is negative for anti-correlated images
SsimValues == {-100, -37, 0, 42, 79, 80, 100}

ModelNames == {"ArcFace", "Facenet"}

\* DeepFace.verify returns a distance or raises
FaceOutcomes ==
  [exc : {"none"}, distance : Distances]
  \cup {[exc |-> "Exception", distance |-> 0]}

\* cvtColor, resize and structural_similarity return a score or one raises
SsimOutcomes ==
  [exc : {"none"}, score : SsimValues]
  \cup {[exc |-> "Exception", score |-> 0]}

\* lines 108-113: 1 - distance/1.34 (ArcFace) or 1 - distance/1.5,
\* then max(0, min(1, similarity))
SimilarityOfDistance(name, distance) ==
  LET similarity == IF name = "ArcFace"
                    THEN ScoreUnit - distance * 150
                    ELSE ScoreUnit - distance * 134
  IN IF similarity > ScoreUnit THEN ScoreUnit
     ELSE IF similarity < 0 THEN 0 ELSE similarity

\* _fallback_similarity: the SSIM score as it is, or the exception that
\* cvtColor, resize or structural_similarity raised
FallbackSimilarity(ssim) ==
  IF ssim.exc # "none"
  THEN [exc |-> ssim.exc, value |-> 0]
  ELSE [exc |-> "none", value |-> ssim.score * (ScoreUnit \div 100)]

\* _calculate_similarity: any exception of the DeepFace block leads to the
\* fallback, whose own exception is not caught here
CalculateSimilarity(name, face, ssim) ==
  IF face.exc # "none"
  THEN FallbackSimilarity(ssim)
  ELSE [exc |-> "none", value |-> SimilarityOfDistance(name, face.distance)]

\* validate: (is_valid, metrics) with the score, or the error return of
\* lines 74-79
Validate(name, face, ssim) ==
  LET similarity == CalculateSimilarity(name, face, ssim)
  IN IF similarity.exc = "none"
     THEN [is_valid |-> similarity.value >= SIMILARITY_THRESHOLD,
           metrics |->
             [keys |-> {"similarity_score", "threshold", "is_valid", "model",
                        "recommendation"},
              similarity_score |-> similarity.value,
              is_valid |-> similarity.value >= SIMILARITY_THRESHOLD]]
     ELSE [is_valid |-> FALSE,
           metrics |-> [keys |-> {"error", "is_valid"},
                        similarity_score |-> 0,
                        is_valid |-> FALSE]]

\* One call of validate: what the face model and the SSIM computation do
\* on the two images is given by the images.
ValidateInit ==
  /\ SampleIdle
  /\ HandlerIdle
  /\ RngIdle
  /\ PurgeIdle
  /\ PipelineIdle
  /\ SceneIdle
  /\ GradeIdle
  /\ MaskIdle
  /\ ClientIdle
  /\ model_name \in ModelNames
  /\ v_pc = "ready"
  /\ face_outcome \in FaceOutcomes
  /\ ssim_outcome \in SsimOutcomes
  /\ is_valid = FALSE
  /\ validation = NoValidation

ValidateCall ==
  /\ v_pc = "ready"
  /\ is_valid' = Validate(model_name, face_outcome, ssim_outcome).is_valid
  /\ validation' = Validate(model_name, face_outcome, ssim_outcome).metrics
  /\ v_pc' = "returned"
  /\ UNCHANGED <<cfgVars, argVars, runVars, sceneVars, gradeVars, maskVars,
                 clientVars, purgeVars, sampleVars, rngVars, handlerVars, model_name, face_outcome, ssim_outcome>>

SpecValidate == ValidateInit /\ [][ValidateCall]_vars

\* ------------------------------------------- concurrent calls of process
\* Two invocations of process on the one module-level RefinementProcessor
\* (api_server.py, line 24), on the same images and prompt, their steps
\* interleaved in every order as they are when requests are served by
\* several threads.
InitConcurrent ==
  /\ SampleIdle
  /\ HandlerIdle
  /\ RngIdle
  /\ PurgeIdle
  /\ ValidatorIdle
  /\ ClientIdle
  /\ MaskIdle
  /\ ProcessorInit
  /\ pc = [r \in Runs |-> "start"]
  /\ \E n \in 1..MaxPairDim :
       /\ flux_output = [r \in Runs |-> InputImage(n, n, "flux")]
       /\ reference_image = [r \in Runs |-> InputImage(n, n, "reference")]
  /\ prompt = [r \in Runs |-> PromptPlain]
  /\ arg_strength = [r \in Runs |-> 45]
  /\ denoise_strength = arg_strength
  /\ RunInit
  /\ SceneIdle
  /\ GradeIdle

SpecConcurrent == InitConcurrent /\ [][Next]_vars

\* ------------------------------------------ api_server: POST /api/generate
\* The handler of lines 71-197.  Its body is one try statement whose only
\* handler turns any exception into HTTPException(500) (lines 190-197);
\* there is no finally clause.
HandlerRetries == 3

Responded(success, code) == [status |-> 200, success |-> success, code |-> code]

\* HTTPException(status_code=500, detail={"code": ErrorCodes.API_ERROR, ...})
Http500 == [status |-> 500, success |-> FALSE, code |-> API_ERROR]

\* A request arrives: flux_client (provider "fal", line 23) is about to run
\* generate_with_retry(..., max_retries=3) on the request's identity packet.
HandlerInit ==
  /\ SampleIdle
  /\ PipelineIdle
  /\ SceneIdle
  /\ GradeIdle
  /\ MaskIdle
  /\ ValidatorIdle
  /\ PurgeIdle
  /\ RngIdle
  /\ provider = "fal"
  /\ identity_packet \in Packets
  /\ max_retries = HandlerRetries
  /\ rt_pc = "loop"
  /\ attempt = 0
  /\ result = NoResult
  /\ calls = <<>>
  /\ sleeps = <<>>
  /\ h_pc = "generate"
  /\ h_steps = <<>>
  /\ h_response = NoResponse

\* lines 86-103: generate_with_retry has ended; a failed result is answered
\* at once with success=False and its error code
HandlerGenerated ==
  /\ h_pc = "generate"
  /\ rt_pc \in {"returned", "raised"}
  /\ h_steps' = Append(h_steps, "generate")
  /\ IF rt_pc = "raised"
     THEN h_pc' = "raised" /\ h_response' = Http500
     ELSE IF ~result.success
          THEN /\ h_pc' = "returned"
               /\ h_response' = Responded(FALSE, result.error_code)
          ELSE /\ h_pc' = "load_generated"
               /\ UNCHANGED h_response
  /\ UNCHANGED <<cfgVars, argVars, runVars, sceneVars, gradeVars, maskVars,
                 clientVars, validVars, purgeVars, sampleVars, rngVars>>

\* lines 110-113: requests.get(result.image_url), cv2.imdecode, cv2.cvtColor;
\* any of them may raise (connection error, bytes that are not an image)
HandlerLoadGenerated ==
  /\ h_pc = "load_generated"
  /\ h_steps' = Append(h_steps, "load_generated")
  /\ \E loaded \in BOOLEAN :
       IF loaded
       THEN h_pc' = "load_reference" /\ UNCHANGED h_response
       ELSE h_pc' = "raised" /\ h_response' = Http500
  /\ UNCHANGED <<cfgVars, argVars, runVars, sceneVars, gradeVars, maskVars,
                 clientVars, validVars, purgeVars, sampleVars, rngVars>>

\* lines 116-117: ref_data = base64.b64decode(ref_b64).  The import base64
\* statement at line 169, inside the function, makes base64 a local name of
\* the whole function, so this read of it raises UnboundLocalError.  The
\* steps after it (refinement, validation, quality metrics, export, the
\* call of purge_embeddings at line 175 and the success response) are never
\* reached.
HandlerLoadReference ==
  /\ h_pc = "load_reference"
  /\ h_steps' = Append(h_steps, "load_reference")
  /\ h_pc' = "raised"
  /\ h_response' = Http500
  /\ UNCHANGED <<cfgVars, argVars, runVars, sceneVars, gradeVars, maskVars,
                 clientVars, validVars, purgeVars, sampleVars, rngVars>>

HandlerNext ==
  \/ RetryAttempt
  \/ HandlerGenerated
  \/ HandlerLoadGenerated
  \/ HandlerLoadReference

SpecHandler == HandlerInit /\ [][HandlerNext]_vars

\* ------------------------------------- conversions back to 8-bit samples
\* One sample of each stage that ends in astype(np.uint8), followed from the
\* float64 arithmetic to the uint8 that comes out.
SampleLevels == {0, 3, 128, 255}

\* mask weights in 255ths (edge_mask is a uint8 image divided by 255.0)
MaskLevels == {0, 5, 20, 255}

\* np.random.normal deviates
NoiseLevels == {-600, -7, 0, 7, 600}

SampleStages ==
  {"harmonize", "rim_light", "match_grain", "match_sharpness", "upscale"}

\* The float64 evaluation of x * (1 - k/255.0) + y * (k/255.0) against the
\* exact (x*(255-k) + y*k)/255, for the sample and mask levels above: it
\* is inexact where the exact value is a whole number in three cases only,
\* 3, 3, 5 -> 2.9999999999999996; 255, 0, 20 -> 235.00000000000003;
\* 255, 255, 20 -> 255.00000000000003.
BlendRounding(x, y, k) ==
  IF <<x, y, k>> = <<3, 3, 5>> THEN -1
  ELSE IF <<x, y, k>> \in {<<255, 0, 20>>, <<255, 255, 20>>} THEN 1
  ELSE 0

\* image * (1 - mask) + other * mask  (lines 144-147 and 261-264)
BlendFloat(x, y, k) ==
  Value(x * (255 - k) + y * k, 255, BlendRounding(x, y, k))

\* image.astype(float) + rim_light * (edge_mask * 0.3)  (lines 166-170)
RimLightFloat(x, bg, k) == Value(x * 2550 + bg * k * 3, 2550, 0)

\* generated.astype(float) + noise * face_region * 0.5  (line 231)
GrainFloat(x, noise, k) == Value(x * 510 + noise * k, 510, 0)

\* cv2.addWeighted(upscaled, 1.5, gaussian, -0.5, 0) on uint8 images: the
\* sum is rounded to the nearest integer (halves to even) and saturated
AddWeighted(u, g) ==
  LET t == 3 * u - g
      fl == t \div 2
      rounded == IF t % 2 = 0 THEN fl ELSE IF fl % 2 = 0 THEN fl ELSE fl + 1
  IN IF rounded < 0 THEN 0 ELSE IF rounded > 255 THEN 255 ELSE rounded

\* the largest whole number not above the value
WholePart(v) ==
  IF v.num % v.den = 0 /\ v.err < 0
  THEN (v.num \div v.den) - 1
  ELSE v.num \div v.den

IsNegative(v) == v.num < 0 \/ (v.num = 0 /\ v.err < 0)

\* np.clip(value, 0, 255) on a float64 value
ClipFloat(v) ==
  IF ClipSample(WholePart(v)) = WholePart(v) /\ WholePart(v) # 255
  THEN v
  ELSE Value(ClipSample(WholePart(v)), 1, 0)

\* the value a stage computes before any clip
Unclipped(stage, x, y, k) ==
  IF stage \in {"harmonize", "match_sharpness"} THEN BlendFloat(x, y, k)
  ELSE IF stage = "rim_light" THEN RimLightFloat(x, y, k)
  ELSE IF stage = "match_grain" THEN GrainFloat(x, y, k)
  ELSE Value(AddWeighted(x, y), 1, 0)

\* the value a stage hands to astype(np.uint8): _localized_denoise (line
\* 149) and _match_sharpness (line 265) convert the blend as it is; the
\* rim light (line 174), the grain (line 232) and the upscale (line 292)
\* clip first
Handed(stage, x, y, k) ==
  IF stage \in {"harmonize", "match_sharpness"}
  THEN Unclipped(stage, x, y, k)
  ELSE ClipFloat(Unclipped(stage, x, y, k))

\* astype(np.uint8) truncates toward zero a value in (-1, 256); for any
\* other value the C conversion is undefined and may leave any byte
Convertible(v) == v.num > -v.den /\ v.num < 256 * v.den

AsTypeUint8(v) ==
  IF Convertible(v)
  THEN {IF IsNegative(v) THEN 0 ELSE WholePart(v)}
  ELSE 0..255

\* The conversion of one sample by one of the five stages, or the colour
\* grade of one pixel.
SamplesInit ==
  /\ PipelineIdle
  /\ SceneIdle
  /\ MaskIdle
  /\ ClientIdle
  /\ ValidatorIdle
  /\ PurgeIdle
  /\ RngIdle
  /\ HandlerIdle
  /\ q_stage \in SampleStages \cup {"color_grade"}
  /\ IF q_stage = "color_grade"
     THEN /\ q_pc = "idle"
          /\ q_x = 0 /\ q_y = 0 /\ q_k = 0
          /\ g_pc = "ready"
          /\ g_pixel \in Pixels
          /\ g_scene \in SceneArgs
     ELSE /\ q_pc = "ready"
          /\ q_x \in SampleLevels
          /\ q_y \in IF q_stage = "match_grain" THEN NoiseLevels ELSE SampleLevels
          /\ q_k \in MaskLevels
          /\ g_pc = "idle"
          /\ g_pixel = <<0, 0, 0>>
          /\ g_scene = ""
  /\ g_out = <<0, 0, 0>>
  /\ q_handed = Value(0, 1, 0)
  /\ q_out = 0

ConvertSample ==
  /\ q_pc = "ready"
  /\ q_handed' = Handed(q_stage, q_x, q_y, q_k)
  /\ q_out' \in AsTypeUint8(Handed(q_stage, q_x, q_y, q_k))
  /\ q_pc' = "done"
  /\ UNCHANGED <<cfgVars, argVars, runVars, sceneVars, gradeVars, maskVars,
                 clientVars, validVars, purgeVars, rngVars, handlerVars,
                 q_stage, q_x, q_y, q_k>>

SamplesNext == ConvertSample \/ GradeApply

SpecSamples == SamplesInit /\ [][SamplesNext]_vars

\* -------------------------------------------------- DataPurgeProtocol
\* Each os / shutil call is one step, so that another purge working on the
\* same directory can delete an entry between two of them.
SessionIds == {"s1", "s2"}

\* ages of entries in seconds: exactly 24 hours, and one second more
Ages == {24 * 3600, 24 * 3600 + 1}

\* max_age_hours arguments: the default and a shorter window
MaxAgeChoices == {1, 24}

\* What can be at a name: nothing, a regular file, or a sub-directory (old);
\* deletable is FALSE when deleting it raises (permissions, a busy file).
EntryStates ==
  {Absent}
  \cup [kind : {"file"}, age : Ages, deletable : BOOLEAN]
  \cup [kind : {"dir"}, age : {24 * 3600 + 1}, deletable : BOOLEAN]

\* os.path.join(temp_dir, f"{identity_id}_embedding.pkl") and the two others,
\* in the order purge_embeddings handles them
ArtifactPaths(id) ==
  <<[id |-> id, suffix |-> "_embedding.pkl"],
    [id |-> id, suffix |-> "_temp.jpg"],
    [id |-> id, suffix |-> "_cache"]>>

EntryAt(f) == IF temp_dir = "dir" /\ f \in Files THEN entries[f] ELSE Absent

\* os.path.exists
PathExists(f) == EntryAt(f).kind # "absent"

\* os.remove raises on a missing path, on a directory and on an entry that
\* cannot be deleted
OsRemoveRaises(f) ==
  \/ EntryAt(f).kind # "file"
  \/ ~EntryAt(f).deletable

\* shutil.rmtree raises on a missing path, on a regular file and on an entry
\* that cannot be deleted
RmtreeRaises(f) ==
  \/ EntryAt(f).kind # "dir"
  \/ ~EntryAt(f).deletable

\* purge_embeddings deletes the cache with shutil.rmtree, the rest with
\* os.remove
PurgeDeleteRaises(f) ==
  IF f.suffix = "_cache" THEN RmtreeRaises(f) ELSE OsRemoveRaises(f)

\* the position after the path at the head of p_todo has been dealt with
AfterHead(next) == IF Tail(p_todo) = <<>> THEN "returned" ELSE next

\* purge_embeddings: if os.path.exists(path)
PurgeExists ==
  /\ p_op = "embeddings"
  /\ p_pc = "exists"
  /\ IF PathExists(Head(p_todo))
     THEN /\ p_pc' = "remove"
          /\ UNCHANGED p_todo
     ELSE /\ p_pc' = AfterHead("exists")
          /\ p_todo' = Tail(p_todo)
  /\ UNCHANGED <<cfgVars, argVars, runVars, sceneVars, gradeVars, maskVars,
                 clientVars, validVars, rngVars, handlerVars,
                 sampleVars, entries, entries0, temp_dir, p_op,
                 identity_id, max_age_hours, p_removed, p_failed, p_vanished>>

\* purge_embeddings: os.remove(path) / shutil.rmtree(path).  The three
\* deletions share one try statement: an exception of any of them is printed
\* by the handler of lines 270-271 and the function ends.
PurgeRemove ==
  /\ p_op = "embeddings"
  /\ p_pc = "remove"
  /\ IF PurgeDeleteRaises(Head(p_todo))
     THEN /\ p_failed' = p_failed \cup {Head(p_todo)}
          /\ p_pc' = "returned"
          /\ UNCHANGED <<entries, p_removed, p_todo>>
     ELSE /\ entries' = [entries EXCEPT ![Head(p_todo)] = Absent]
          /\ p_removed' = p_removed \cup {Head(p_todo)}
          /\ p_pc' = AfterHead("exists")
          /\ p_todo' = Tail(p_todo)
          /\ UNCHANGED p_failed
  /\ UNCHANGED <<cfgVars, argVars, runVars, sceneVars, gradeVars, maskVars,
                 clientVars, validVars, rngVars, handlerVars,
                 sampleVars, entries0, temp_dir, p_op,
                 identity_id, max_age_hours, p_vanished>>

\* the orders in which os.listdir may report the entries (two of them)
ListOrders ==
  {<<[id |-> "s1", suffix |-> "_embedding.pkl"],
     [id |-> "s1", suffix |-> "_temp.jpg"],
     [id |-> "s1", suffix |-> "_cache"],
     [id |-> "s2", suffix |-> "_temp.jpg"]>>,
   <<[id |-> "s2", suffix |-> "_temp.jpg"],
     [id |-> "s1", suffix |-> "_cache"],
     [id |-> "s1", suffix |-> "_temp.jpg"],
     [id |-> "s1", suffix |-> "_embedding.pkl"]>>}

\* auto_purge_old_data, lines 288-293: os.path.exists(temp_dir) and
\* os.listdir(temp_dir), which raises when temp_dir is not a directory
AutoPurgeList ==
  /\ p_op = "auto"
  /\ p_pc = "list"
  /\ IF temp_dir = "absent"
     THEN p_pc' = "returned" /\ UNCHANGED p_todo
     ELSE IF temp_dir = "file"
          THEN p_pc' = "raised" /\ UNCHANGED p_todo
          ELSE \E order \in ListOrders :
                 /\ p_todo' = SelectSeq(order, PathExists)
                 /\ p_pc' = IF SelectSeq(order, PathExists) = <<>>
                            THEN "returned" ELSE "isfile"
  /\ UNCHANGED <<cfgVars, argVars, runVars, sceneVars, gradeVars, maskVars,
                 clientVars, validVars, rngVars, handlerVars,
                 sampleVars, entries, entries0, temp_dir, p_op,
                 identity_id, max_age_hours, p_removed, p_failed, p_vanished>>

\* line 296: if os.path.isfile(filepath)
AutoPurgeIsFile ==
  /\ p_op = "auto"
  /\ p_pc = "isfile"
  /\ IF EntryAt(Head(p_todo)).kind = "file"
     THEN /\ p_pc' = "getmtime"
          /\ UNCHANGED p_todo
     ELSE /\ p_pc' = AfterHead("isfile")
          /\ p_todo' = Tail(p_todo)
  /\ UNCHANGED <<cfgVars, argVars, runVars, sceneVars, gradeVars, maskVars,
                 clientVars, validVars, rngVars, handlerVars,
                 sampleVars, entries, entries0, temp_dir, p_op,
                 identity_id, max_age_hours, p_removed, p_failed, p_vanished>>

\* lines 286, 299: file_age > max_age_hours * 3600
TooOld(age, hours) == age > hours * 3600

\* lines 297-299: os.path.getmtime(filepath), outside any try statement,
\* raises FileNotFoundError when the file is gone
AutoPurgeGetmtime ==
  /\ p_op = "auto"
  /\ p_pc = "getmtime"
  /\ IF ~PathExists(Head(p_todo))
     THEN /\ p_pc' = "raised"
          /\ UNCHANGED p_todo
     ELSE IF TooOld(EntryAt(Head(p_todo)).age, max_age_hours)
          THEN /\ p_pc' = "remove"
               /\ UNCHANGED p_todo
          ELSE /\ p_pc' = AfterHead("isfile")
               /\ p_todo' = Tail(p_todo)
  /\ UNCHANGED <<cfgVars, argVars, runVars, sceneVars, gradeVars, maskVars,
                 clientVars, validVars, rngVars, handlerVars,
                 sampleVars, entries, entries0, temp_dir, p_op,
                 identity_id, max_age_hours, p_removed, p_failed, p_vanished>>

\* lines 300-304: os.remove(filepath) in its own try statement
AutoPurgeRemove ==
  /\ p_op = "auto"
  /\ p_pc = "remove"
  /\ IF OsRemoveRaises(Head(p_todo))
     THEN /\ p_failed' = p_failed \cup {Head(p_todo)}
          /\ UNCHANGED <<entries, p_removed>>
     ELSE /\ entries' = [entries EXCEPT ![Head(p_todo)] = Absent]
          /\ p_removed' = p_removed \cup {Head(p_todo)}
          /\ UNCHANGED p_failed
  /\ p_pc' = AfterHead("isfile")
  /\ p_todo' = Tail(p_todo)
  /\ UNCHANGED <<cfgVars, argVars, runVars, sceneVars, gradeVars, maskVars,
                 clientVars, validVars, rngVars, handlerVars,
                 sampleVars, entries0, temp_dir, p_op,
                 identity_id, max_age_hours, p_vanished>>

\* Another purge (a second request's purge_embeddings, or the age-based
\* purge) deletes an entry while this one is running.
ConcurrentRemove ==
  /\ p_pc \notin {"idle", "returned", "raised"}
  /\ temp_dir = "dir"
  /\ \E f \in Files :
       /\ entries[f].kind # "absent"
       /\ entries[f].deletable
       /\ entries' = [entries EXCEPT ![f] = Absent]
       /\ p_vanished' = p_vanished \cup {f}
  /\ UNCHANGED <<cfgVars, argVars, runVars, sceneVars, gradeVars, maskVars,
                 clientVars, validVars, rngVars, handlerVars,
                 sampleVars, entries0, temp_dir, p_op,
                 identity_id, max_age_hours, p_pc, p_todo, p_removed, p_failed>>

\* A call of purge_embeddings or of auto_purge_old_data on a directory in
\* any state.
PurgeInit ==
  /\ SampleIdle
  /\ PipelineIdle
  /\ SceneIdle
  /\ GradeIdle
  /\ MaskIdle
  /\ ClientIdle
  /\ ValidatorIdle
  /\ RngIdle
  /\ HandlerIdle
  /\ temp_dir \in {"dir", "file", "absent"}
  /\ entries \in [Files -> EntryStates]
  /\ temp_dir # "dir" => entries = [f \in Files |-> Absent]
  /\ entries0 = entries
  /\ p_op \in {"embeddings", "auto"}
  /\ identity_id \in SessionIds
  /\ max_age_hours \in MaxAgeChoices
  /\ p_op = "embeddings" => max_age_hours = 24
  /\ p_op = "auto" => identity_id = "s1"
  /\ p_pc = IF p_op = "embeddings" THEN "exists" ELSE "list"
  /\ p_todo = IF p_op = "embeddings" THEN ArtifactPaths(identity_id) ELSE <<>>
  /\ p_removed = {}
  /\ p_failed = {}
  /\ p_vanished = {}

PurgeNext ==
  \/ PurgeExists
  \/ PurgeRemove
  \/ AutoPurgeList
  \/ AutoPurgeIsFile
  \/ AutoPurgeGetmtime
  \/ AutoPurgeRemove
  \/ ConcurrentRemove

SpecPurge == PurgeInit /\ [][PurgeNext]_vars

\* ================================================================ claims
HarmonizeRan(r) == \E i \in DOMAIN trace[r] : trace[r][i] = "harmonize"

PastUpscale(r) == pc[r] \in {"detect_scene", "color_grade", "metrics", "done"}

\* C1: for every strength passed to process, the strength handed to the
\* harmonization stage and metrics.denoise_strength_used lie in [0.30, 0.45].
C1_StrengthWithinSafeRange ==
  \A r \in Runs :
    /\ HarmonizeRan(r) => harmonize_strength[r] \in 30..45
    /\ pc[r] = "done" => metrics[r].denoise_strength_used \in 30..45

\* C2: process raises only when an input image has zero area; every pair of
\* non-empty images, of equal or different sizes, gets (image, metrics).
C2_OnlyZeroAreaRaises ==
  \A r \in Runs :
    pc[r] = "raised" => ZeroArea(flux_output[r]) \/ ZeroArea(reference_image[r])

\* C3: apply_lut(image, "neutral") returns every sample unchanged.
C3_NeutralIsIdentity ==
  (g_pc = "done" /\ g_scene = "neutral") => g_out = g_pixel

\* C4: when its try block does not raise, the upscaling stage returns an
\* image of exactly (f*W) x (f*H) with 3 channels, W x H being its input.
C4_UpscaleDimensions ==
  \A r \in Runs :
    (PastUpscale(r) /\ enable_upscale /\ ~upscale_failed[r]) =>
      /\ upscaled[r].h = upscale_factor * textured[r].h
      /\ upscaled[r].w = upscale_factor * textured[r].w
      /\ upscaled[r].c = 3

C4_Witness ==
  \E r \in Runs :
    /\ PastUpscale(r) /\ enable_upscale /\ ~upscale_failed[r]
    /\ textured[r].h = 2 /\ textured[r].w = 3
    /\ upscale_factor = 4

\* C5: when a statement of the upscaling stage raises, the stage returns its
\* input unchanged (shape and samples), nothing is raised to process, and
\* process goes on to color grading and returns the graded image and metrics.
C5_UpscaleFailurePassesThrough ==
  \A r \in Runs :
    upscale_failed[r] =>
      /\ upscaled[r] = textured[r]
      /\ PastUpscale(r)
      /\ pc[r] \in {"metrics", "done"} =>
           graded[r] = ApplyLut(textured[r], scene_type[r])
      /\ pc[r] = "done" => metrics[r].output_resolution = Resolution(graded[r])

C5_Witness ==
  \E r \in Runs :
    /\ upscale_failed[r]
    /\ pc[r] = "done"
    /\ graded[r].h = textured[r].h /\ graded[r].w = textured[r].w

\* C6: the upscale factor in the metrics is the effective one: the ratio of
\* the returned image's width/height to those of the image that entered the
\* upscaling stage, whether upscaling succeeded, failed or was disabled.
C6_ReportedFactorIsEffective ==
  \A r \in Runs :
    pc[r] = "done" =>
      /\ graded[r].w = metrics[r].upscale_factor * textured[r].w
      /\ graded[r].h = metrics[r].upscale_factor * textured[r].h

\* C7: with enable_upscale = False, the returned image has the width and
\* height of the generated input and the metrics report upscale factor 1.
C7_DisabledUpscaleKeepsSize ==
  \A r \in Runs :
    (pc[r] = "done" /\ ~enable_upscale) =>
      /\ graded[r].w = flux_output[r].w
      /\ graded[r].h = flux_output[r].h
      /\ metrics[r].upscale_factor = 1

\* What the environment measured for the two calls is the same.
SameMeasurements ==
  /\ ref_profile[1] = ref_profile[2]
  /\ textured[1] = textured[2]
  /\ upscale_failed[1] = upscale_failed[2]

\* C8: a call with denoise_strength 0.9 and a call with 0.45 on the same
\* inputs hand the same strength, 0.45, to the harmonization stage, run the
\* same stages, report denoise_strength_used = 0.45, and return the same
\* image and metrics whenever the filters measured the same.
C8_ClampEquivalence ==
  /\ (HarmonizeRan(1) /\ HarmonizeRan(2)) =>
       /\ harmonize_strength[1] = harmonize_strength[2]
       /\ harmonize_strength[1] = 45
  /\ (pc[1] = "done" /\ pc[2] = "done") =>
       /\ trace[1] = trace[2]
       /\ metrics[1].denoise_strength_used = 45
       /\ metrics[2].denoise_strength_used = 45
       /\ SameMeasurements => (graded[1] = graded[2] /\ metrics[1] = metrics[2])

C8_Witness ==
  /\ arg_strength[1] = 90 /\ arg_strength[2] = 45
  /\ pc[1] = "done" /\ pc[2] = "done"
  /\ SameMeasurements

\* word occurs in text at some offset, letter case of text ignored
OccursIgnoringCase(word, text) ==
  \E off \in 0..(Len(text) - Len(word)) :
    \A k \in 1..Len(word) : LowerChar(text[off + k]) = word[k]

Mentions(words, text) ==
  \E k \in DOMAIN words : OccursIgnoringCase(words[k], text)

\* C9: the detected category is the first of mars, night, vintage one of
\* whose keywords occurs in the text, case ignored, and neutral when none
\* does; "rainy Paris 1920s street" is vintage.
C9_ScenePriority ==
  sc_pc = "done" =>
    /\ sc_result = "mars" <=> Mentions(MarsWords, sc_prompt)
    /\ sc_result = "night" <=>
         (~Mentions(MarsWords, sc_prompt) /\ Mentions(NightWords, sc_prompt))
    /\ sc_result = "vintage" <=>
         /\ ~Mentions(MarsWords, sc_prompt)
         /\ ~Mentions(NightWords, sc_prompt)
         /\ Mentions(VintageWords, sc_prompt)
    /\ sc_result = "neutral" <=>
         /\ ~Mentions(MarsWords, sc_prompt)
         /\ ~Mentions(NightWords, sc_prompt)
         /\ ~Mentions(VintageWords, sc_prompt)
    /\ sc_prompt = PromptParis => sc_result = "vintage"

C9_Witness ==
  sc_pc = "done" /\ sc_prompt = PromptParis /\ sc_result = "vintage"

\* A text with keywords of all three categories, in upper case, is mars.
C9_WitnessSeveralCategories ==
  /\ sc_pc = "done"
  /\ sc_result = "mars"
  /\ Mentions(NightWords, sc_prompt)
  /\ Mentions(VintageWords, sc_prompt)
  /\ ~AnyWordIn(sc_prompt, MarsWords)

\* C10: for a W x H generated image, a reference of the same size,
\* upscaling enabled with factor f and a strength s in [0.30, 0.45], a call
\* whose upscaling stage does not raise returns an (f*W) x (f*H) image and
\* metrics with s unchanged, factor f and the category of the scene text
\* (night for the text containing "moonlight").
C10_EndToEnd ==
  \A r \in Runs :
    ( /\ pc[r] \in {"done", "raised"}
      /\ ~ZeroArea(flux_output[r])
      /\ reference_image[r].h = flux_output[r].h
      /\ reference_image[r].w = flux_output[r].w
      /\ enable_upscale
      /\ arg_strength[r] \in 30..45 ) =>
        /\ pc[r] = "done"
        /\ ~upscale_failed[r] =>
             /\ graded[r].w = upscale_factor * flux_output[r].w
             /\ graded[r].h = upscale_factor * flux_output[r].h
        /\ metrics[r].denoise_strength_used = arg_strength[r]
        /\ metrics[r].upscale_factor = upscale_factor
        /\ metrics[r].scene_type = DetectSceneType(prompt[r])
        /\ prompt[r] = PromptMoonlight => metrics[r].scene_type = "night"

C10_Witness ==
  \E r \in Runs :
    /\ pc[r] = "done"
    /\ flux_output[r].h = 2 /\ flux_output[r].w = 3
    /\ reference_image[r].h = 2 /\ reference_image[r].w = 3
    /\ enable_upscale /\ upscale_factor = 4 /\ ~upscale_failed[r]
    /\ arg_strength[r] = 40
    /\ prompt[r] = PromptMoonlight
    /\ graded[r].h = 8 /\ graded[r].w = 12
    /\ metrics[r].scene_type = "night"
    /\ textured[r].px # harmonized[r].px

\* C11: for every pixel the highlight (luminance > 0.66), midtone
\* (0.33 <= luminance <= 0.66) and shadow (luminance < 0.33) weights of
\* apply_lut sum to exactly 1 and exactly one of them is nonzero; a luminance
\* of exactly 0.33 or 0.66 is midtone.
SampleSum(p) == p[1] + p[2] + p[3]

C11_ZonesPartition ==
  g_pc = "done" =>
    LET hi == Highlights(g_pixel)
        mid == Midtones(g_pixel)
        sh == Shadows(g_pixel)
    IN /\ hi + mid + sh = 1
       /\ Cardinality({z \in {"hi", "mid", "sh"} :
              CASE z = "hi" -> hi # 0 [] z = "mid" -> mid # 0 [] z = "sh" -> sh # 0}) = 1
       /\ hi = 1 <=> SampleSum(g_pixel) * 100 > 66 * 765
       /\ sh = 1 <=> SampleSum(g_pixel) * 100 < 33 * 765
       /\ SampleSum(g_pixel) * 100 \in {33 * 765, 66 * 765} => mid = 1

\* A graded pixel of sample sum 504 (luminance 0.6588), the last midtone
\* before the highlights; 505 is a highlight.
C11_Witness ==
  /\ g_pc = "done"
  /\ SampleSum(g_pixel) = 504
  /\ Midtones(g_pixel) = 1 /\ Highlights(g_pixel) = 0 /\ Shadows(g_pixel) = 0

\* C12: _match_grain returns its input unchanged whenever
\* abs(reference std - generated std) <= 2, the value 2 included, and adds
\* noise only when the difference is strictly greater than 2.
C12_GrainNoOpWithinTwo ==
  \A r \in Runs :
    pc[r] = "match_sharpness" =>
      /\ Abs(grain_diff[r]) <= 2 => textured[r] = harmonized[r]
      /\ textured[r] # harmonized[r] =>
           /\ Abs(grain_diff[r]) > 2
           /\ textured[r].px = Append(harmonized[r].px, "grain")

\* _match_grain has returned with a difference of exactly 2.
C12_Witness ==
  \E r \in Runs :
    /\ pc[r] = "match_sharpness"
    /\ Abs(grain_diff[r]) = 2
    /\ textured[r] = harmonized[r]

\* _match_grain has returned a noised image.
C12_WitnessNoise ==
  \E r \in Runs :
    /\ pc[r] = "match_sharpness"
    /\ Abs(grain_diff[r]) = 3
    /\ textured[r].px = Append(harmonized[r].px, "grain")

\* C13: for any input image the edge mask has the image's width and height
\* and every mask value lies in [0, 1].
C13_EdgeMaskShapeAndRange ==
  m_pc = "done" =>
    /\ m_mask.h = m_image.h
    /\ m_mask.w = m_image.w
    /\ 0 <= m_mask.v.num
    /\ m_mask.v.num <= m_mask.v.den

\* The mask of a 2 x 3 image at a pixel the blur left fully on an edge.
C13_Witness ==
  /\ m_pc = "done"
  /\ m_image.h = 2 /\ m_image.w = 3
  /\ m_blurred = MaxSample
  /\ m_mask.h = 2 /\ m_mask.w = 3
  /\ m_mask.v.num = m_mask.v.den

\* C14: every call of process that returns yields an image at least as wide
\* and as high as the generated input, and a metrics record in which
\* processing time, strength used, upscale factor, scene category, output
\* width and output height are all populated, the reported width and height
\* being those of the returned image.
SceneCategories == {"mars", "night", "vintage", "neutral"}

C14_ReturnedImageAndMetrics ==
  \A r \in Runs :
    pc[r] = "done" =>
      /\ graded[r].w >= flux_output[r].w
      /\ graded[r].h >= flux_output[r].h
      /\ metrics[r].processing_time = TRUE
      /\ metrics[r].denoise_strength_used = denoise_strength[r]
      /\ metrics[r].denoise_strength_used > 0
      /\ metrics[r].upscale_factor \in Factors \cup {1}
      /\ metrics[r].scene_type \in SceneCategories
      /\ Len(metrics[r].output_resolution) = 3
      /\ metrics[r].output_resolution[1] = graded[r].w
      /\ metrics[r].output_resolution[2] = "x"
      /\ metrics[r].output_resolution[3] = graded[r].h

\* A returned call on a 3 wide, 2 high image upscaled by 4: "12x8".
C14_Witness ==
  \E r \in Runs :
    /\ pc[r] = "done"
    /\ flux_output[r].w = 3 /\ flux_output[r].h = 2
    /\ graded[r].w = 12 /\ graded[r].h = 8
    /\ metrics[r].output_resolution = <<12, "x", 8>>
    /\ metrics[r].processing_time = TRUE

\* A returned call whose image outgrew the input without upscaling.
C14_WitnessBroadcast ==
  \E r \in Runs :
    /\ pc[r] = "done"
    /\ ~enable_upscale
    /\ flux_output[r].w = 1 /\ graded[r].w = 2
    /\ metrics[r].output_resolution[1] = 2

\* C15: in every call of process the stages run in the fixed order edge mask,
\* harmonize, rim light, reference grain analysis and face region, match
\* grain, match sharpness, upscale (or pass-through), scene detection, color
\* grade, metrics assembly; each stage has completed before the next starts
\* and works on the previous stage's output, and no stage other than
\* upscaling is ever skipped.
StageOrder ==
  <<"edge_mask", "harmonize", "rim_light", "analyze_grain", "face_region",
    "match_grain", "match_sharpness",
    IF enable_upscale THEN "upscale" ELSE "upscale_skipped",
    "detect_scene", "color_grade", "metrics">>

IsPrefix(s, t) == Len(s) <= Len(t) /\ \A i \in 1..Len(s) : s[i] = t[i]

StagesRun(r) == Len(trace[r])

C15_FixedStageOrder ==
  \A r \in Runs :
    LET n == StagesRun(r)
        live == pc[r] # "raised"
    IN /\ n <= Len(StageOrder)
       /\ trace[r] = SubSeq(StageOrder, 1, n)
       /\ pc[r] = "done" => n = Len(StageOrder)
       /\ pc[r] \notin {"idle", "waiting", "start", "raised", "done"} =>
            /\ n < Len(StageOrder)
            /\ pc[r] = IF StageOrder[n + 1] = "harmonize" THEN "denoise"
                       ELSE IF StageOrder[n + 1] = "upscale_skipped"
                            THEN "upscale"
                            ELSE StageOrder[n + 1]
       /\ (n = 2 /\ live) => harmonized[r].px = <<"flux", "denoise">>
       /\ (n >= 3 /\ live) =>
            harmonized[r].px = <<"flux", "denoise", "rim_light">>
       /\ (n >= 6 /\ live) => IsPrefix(harmonized[r].px, textured[r].px)
       /\ n >= 8 =>
            /\ IsPrefix(textured[r].px, upscaled[r].px)
            /\ Len(upscaled[r].px) <= Len(textured[r].px) + 1
            /\ ~enable_upscale => upscaled[r] = textured[r]
       /\ n >= 9 => scene_type[r] \in SceneCategories
       /\ n >= 10 =>
            /\ graded[r].px = Append(upscaled[r].px, scene_type[r])
            /\ graded[r].h = upscaled[r].h /\ graded[r].w = upscaled[r].w

\* A returned call in which every stage changed the image: denoise, rim
\* light, grain, sharpening, upscaling and a night grade, in that order.
C15_Witness ==
  \E r \in Runs :
    /\ pc[r] = "done"
    /\ trace[r] = StageOrder
    /\ enable_upscale
    /\ graded[r].px =
         <<"flux", "denoise", "rim_light", "grain", "sharpen", "upscale", "night">>

\* A returned call with upscaling switched off: the stage is passed through.
C15_WitnessPassThrough ==
  \E r \in Runs :
    /\ pc[r] = "done"
    /\ ~enable_upscale
    /\ trace[r][8] = "upscale_skipped"
    /\ upscaled[r] = textured[r]

\* C16: in generate_with_retry a failed attempt of category no-face-detected
\* or unsafe-content is returned at once, with no further attempt; a failed
\* attempt of any other category (low-quality-input, timeout, rate-limited,
\* generic API error, unknown) is followed by another attempt as long as the
\* attempt cap has not been reached.
NonRetryableCategories == {NO_FACE_DETECTED, NSFW_CONTENT}

FailedCall(i) == calls[i].out.exc = "none" /\ ~calls[i].out.result.success

C16_RetryByCategory ==
  /\ \A code \in ErrorCodes :
       /\ ReturnedAtOnce(code) <=> code \in NonRetryableCategories
       /\ IsRetryable(code) <=> ~ReturnedAtOnce(code)
  /\ \A i \in DOMAIN calls :
       FailedCall(i) =>
         IF calls[i].out.result.error_code \in NonRetryableCategories
         THEN /\ i = Len(calls)
              /\ rt_pc = "returned"
              /\ result = calls[i].out.result
         ELSE i < max_retries =>
                \/ i < Len(calls)
                \/ rt_pc = "loop" /\ attempt = i

\* A missing face is returned after the first of three allowed attempts.
C16_Witness ==
  /\ rt_pc = "returned"
  /\ max_retries = 3
  /\ Len(calls) = 1
  /\ result.error_code = NO_FACE_DETECTED

\* A timeout and a generic API error were each followed by another attempt.
C16_WitnessRetried ==
  /\ Len(calls) = 3
  /\ calls[1].out.result.error_code = INFERENCE_TIMEOUT
  /\ calls[2].out.result.error_code = API_ERROR

\* C17: generate_with_retry calls generate_image at most max_retries times
\* whatever the outcomes, makes no call after the first success and returns
\* that result; when all max_retries attempts fail it returns the result of
\* the last one.
C17_AttemptCap ==
  /\ Len(calls) <= max_retries
  /\ \A i \in DOMAIN calls :
       calls[i].out.result.success =>
         /\ i = Len(calls)
         /\ rt_pc = "returned"
         /\ result = calls[i].out.result
  /\ rt_pc = "returned" =>
       /\ calls # <<>>
       /\ result = calls[Len(calls)].out.result
  /\ (max_retries >= 1 /\ Len(calls) = max_retries
        /\ \A i \in DOMAIN calls : FailedCall(i)) =>
       /\ rt_pc = "returned"
       /\ result = calls[max_retries].out.result

\* Three failed attempts out of three: the third result is returned.
C17_Witness ==
  /\ rt_pc = "returned"
  /\ max_retries = 3
  /\ Len(calls) = 3
  /\ \A i \in DOMAIN calls : FailedCall(i)
  /\ result = calls[3].out.result
  /\ sleeps = <<1, 2>>

\* A success at the second of three attempts ends the call.
C17_WitnessSuccess ==
  /\ rt_pc = "returned"
  /\ max_retries = 3
  /\ Len(calls) = 2
  /\ result.success

\* C18: generate_image returns an InferenceResult for every input and every
\* behaviour of the provider, never raising to its caller; every failure
\* carries a defined category: an invalid identity packet gives
\* no-face-detected without any network request, a request timeout gives
\* timeout, any other exception (an unsupported provider included) gives
\* generic API error.
ValidPacket(packet) ==
  packet.wellFormed /\ packet.cleanFace /\ packet.boundingBox /\ packet.passed

SupportedProvider == provider \in {"fal", "replicate"}

C18_GenerateImageAlwaysReturns ==
  /\ rt_pc = "raised" => max_retries = 0
  /\ \A i \in DOMAIN calls :
       LET out == calls[i].out
           behaviour == calls[i].behaviour
       IN /\ out.exc = "none"
          /\ ~out.result.success =>
               out.result.error_code \in
                 {NO_FACE_DETECTED, INFERENCE_TIMEOUT, API_ERROR}
          /\ (identity_packet.wellFormed /\ ~ValidPacket(identity_packet)) =>
               /\ ~out.result.success
               /\ out.result.error_code = NO_FACE_DETECTED
               /\ out.requests = 0
          /\ (ValidPacket(identity_packet) /\ SupportedProvider
                /\ behaviour = "timeout") =>
               /\ ~out.result.success
               /\ out.result.error_code = INFERENCE_TIMEOUT
          /\ (ValidPacket(identity_packet) /\ SupportedProvider
                /\ behaviour \in {"http_error", "bad_json"}) =>
               /\ ~out.result.success
               /\ out.result.error_code = API_ERROR
          /\ (ValidPacket(identity_packet) /\ ~SupportedProvider) =>
               /\ ~out.result.success
               /\ out.result.error_code = API_ERROR
               /\ out.requests = 0
          /\ ~identity_packet.wellFormed =>
               /\ ~out.result.success
               /\ out.result.error_code = API_ERROR

\* generate_image on a valid packet with a provider it does not support.
C18_Witness ==
  /\ calls # <<>>
  /\ ValidPacket(identity_packet)
  /\ provider = "comfyui"
  /\ calls[1].out.exc = "none"
  /\ calls[1].out.result.error_code = API_ERROR

\* generate_image on a packet without a bounding box: no request is made.
C18_WitnessInvalidPacket ==
  /\ calls # <<>>
  /\ identity_packet.wellFormed /\ ~identity_packet.boundingBox
  /\ calls[1].out.result.error_code = NO_FACE_DETECTED
  /\ calls[1].out.requests = 0

\* C19: for every pair of images and every outcome of the face model, the
\* path on which the structural-similarity fallback supplies the score
\* included, the score validate reports lies in [0, 1] and the boolean it
\* returns is true exactly when the score is >= 0.80.
HasScore == "similarity_score" \in validation.keys

C19_ScoreInUnitInterval ==
  (v_pc = "returned" /\ HasScore) =>
    /\ validation.similarity_score >= 0
    /\ validation.similarity_score <= ScoreUnit
    /\ is_valid <=> validation.similarity_score * 100 >= 80 * ScoreUnit
    /\ validation.is_valid = is_valid

\* C20: whenever the face model fails internally, validate still returns a
\* metrics record with a score taken from the structural-similarity fallback
\* and a pass/fail decided against 0.80; it never returns an error record
\* without a score and never raises.
C20_FallbackAlwaysScores ==
  /\ v_pc # "raised"
  /\ (v_pc = "returned" /\ face_outcome.exc # "none") =>
       /\ HasScore
       /\ "error" \notin validation.keys
       /\ is_valid <=> validation.similarity_score * 100 >= 80 * ScoreUnit


\* C21: neither purge_embeddings nor auto_purge_old_data ever raises,
\* whichever file operation fails: a delete that fails, or a file that
\* disappears between being listed and being inspected or removed because
\* another purge runs at the same time.
C21_PurgeNeverRaises == p_pc # "raised"

\* C22: purge_embeddings attempts to delete every artifact of its session
\* (embedding file, temporary image, detection cache directory): when it has
\* returned, every artifact of the session that it could delete is gone even
\* if deleting another one failed, and the artifacts of other sessions are
\* as they were.
SessionArtifacts(id) == {ArtifactPaths(id)[i] : i \in 1..3} \cap Files

CouldDelete(f) ==
  /\ f \notin p_vanished
  /\ entries0[f].deletable
  /\ entries0[f].kind = IF f.suffix = "_cache" THEN "dir" ELSE "file"

C22_PurgeDeletesEveryArtifact ==
  (p_op = "embeddings" /\ p_pc = "returned") =>
    /\ \A f \in SessionArtifacts(identity_id) :
         CouldDelete(f) => entries[f] = Absent
    /\ \A f \in Files \ SessionArtifacts(identity_id) :
         f \notin p_vanished => entries[f] = entries0[f]

\* C25: auto_purge_old_data removes exactly the regular files directly in
\* the directory that are strictly older than max_age_hours: when it has
\* ended, every such file it could delete is gone although deleting another
\* one failed, files within the window and sub-directories are as they were,
\* and a directory that does not exist is left alone.
ShouldPurge(f) ==
  /\ entries0[f].kind = "file"
  /\ TooOld(entries0[f].age, max_age_hours)

C25_AutoPurgeRemovesExactlyOld ==
  (p_op = "auto" /\ p_pc \in {"returned", "raised"}) =>
    \A f \in Files :
      f \notin p_vanished =>
        /\ (ShouldPurge(f) /\ entries0[f].deletable) => entries[f] = Absent
        /\ ~ShouldPurge(f) => entries[f] = entries0[f]
        /\ temp_dir = "absent" => entries[f] = entries0[f]


\* C24: apply_lut with a scene category that is none of mars, night, vintage
\* and neutral ends without an error and gives exactly the output of the
\* neutral grade on the same pixel.
NeutralGrade(p) == [ch \in 1..3 |-> GradeSample(p[ch], ch, LUTS["neutral"], p)]

C24_UnknownSceneIsNeutral ==
  (g_pc = "done" /\ g_scene \notin {"mars", "night", "vintage", "neutral"}) =>
    g_out = NeutralGrade(g_pixel)

\* an unknown category graded on a pixel the mars grade would change
C24_Witness ==
  /\ g_pc = "done"
  /\ g_scene = "underwater"
  /\ g_out = NeutralGrade(g_pixel)
  /\ g_out # ApplyLutPixel(g_pixel, "mars")


\* C23: concurrent invocations of process are independent: no invocation
\* reads state another one wrote, so what an invocation returns is what it
\* returns when it runs alone.  Alone, the grain noise of an invocation is
\* the stretch of the generator's stream that starts where the generator
\* stood when the invocations began (position 0).
C23_ConcurrentInvocationsIndependent ==
  \A r \in Runs :
    pc[r] = "done" => grain_noise[r] \in {NoNoise, 0}


\* C26: the wait after the k-th failed retryable attempt is 2^(k-1) seconds
\* (1, 2, 4, ...), and the client waits only between two attempts: every
\* wait follows a failed attempt of a retryable category and is followed by
\* another attempt, so there is none after the last allowed attempt, after
\* a success or after a non-retryable failure.
WaitSeconds(k) == 2 ^ (k - 1)

C26_BackoffBetweenAttempts ==
  /\ \A k \in 1..Len(sleeps) :
       /\ sleeps[k] = WaitSeconds(k)
       /\ k <= Len(calls)
       /\ FailedCall(k)
       /\ calls[k].out.result.error_code \notin NonRetryableCategories
       /\ k < max_retries
  /\ rt_pc = "loop" => Len(sleeps) = Len(calls)
  /\ rt_pc = "returned" => Len(sleeps) = Len(calls) - 1

\* three attempts failed on a timeout: waits of 1 and 2 seconds, none after
\* the third
C26_Witness ==
  /\ rt_pc = "returned"
  /\ max_retries = 3
  /\ Len(calls) = 3
  /\ sleeps = <<1, 2>>
  /\ result.error_code = INFERENCE_TIMEOUT

\* a success on the second attempt: one wait, before it
C26_WitnessSuccess ==
  /\ rt_pc = "returned"
  /\ Len(calls) = 2
  /\ sleeps = <<1>>
  /\ result.success


\* C29: generate_with_retry returns an InferenceResult for every value of
\* max_retries, 0 included; it never ends with an error of its own.
C29_RetryAlwaysReturns == rt_pc # "raised"


\* C30: every request whose generation succeeded has purge_embeddings
\* invoked before the handler finishes, also when a later step fails; a
\* request whose generation failed goes through no refinement, validation,
\* export or purge and is answered success=false with the error code.
C30_PurgeAfterSuccessfulGeneration ==
  h_pc \in {"returned", "raised"} =>
    IF rt_pc = "returned" /\ result.success
    THEN \E i \in 1..Len(h_steps) : h_steps[i] = "purge"
    ELSE /\ h_steps = <<"generate">>
         /\ rt_pc = "returned" =>
              h_response = Responded(FALSE, result.error_code)


\* C27: in the harmonize blend a sample with mask weight 0 comes out exactly
\* as the input, one with weight 1 as the denoised sample, and any other is
\* the convex combination image*(1-mask) + denoised*mask, so that the
\* output sample lies between the original and the denoised one.
C27_BlendBetweenOriginalAndDenoised ==
  (q_pc = "done" /\ q_stage = "harmonize") =>
    /\ q_k = 0 => q_out = q_x
    /\ q_k = 255 => q_out = q_y
    /\ (q_x <= q_out /\ q_out <= q_y) \/ (q_y <= q_out /\ q_out <= q_x)

\* C28: every stage that converts back to 8 bits (harmonize, rim light,
\* grain, sharpness, upscale, colour grade) converts only values that lie in
\* the range of a byte, so the output is their whole part and never a value
\* wrapped modulo 256; where the stage's arithmetic leaves the range the
\* output saturates at 0 or 255; a graded pixel keeps its three channels.
Saturated(w) == IF w < 0 THEN 0 ELSE IF w > 255 THEN 255 ELSE w

C28_WitnessNegative ==
  /\ q_pc = "done"
  /\ q_stage = "match_grain"
  /\ WholePart(Unclipped(q_stage, q_x, q_y, q_k)) < 0
  /\ q_out = 0

\* a grade whose gain takes a channel above 255
C28_WitnessGrade ==
  /\ g_pc = "done"
  /\ \E ch \in 1..3 :
       /\ GradeUnclipped(g_pixel[ch], ch, LutFor(g_scene), g_pixel) > 255
       /\ g_out[ch] = 255

==========================================================================
